---------------------------- MODULE Spec2Model ----------------------------
(***************************************************************************)
(* A model of the simulation core of rhex: Location (world state and       *)
(* action resolution, src/src/game/location.rs), Actor (stats, inventory,  *)
(* perception and the per-tick hooks, src/src/game/actor.rs) and Engine    *)
(* (the round driver, src/src/game/engine.rs).                             *)
(*                                                                         *)
(* Every Location operation (spawn, act, skip_act, ...) is one action of   *)
(* the model: the hooks it calls (pre_any_tick, pre_own_tick,              *)
(* post_own_tick, post_action, post_any_tick) are part of that action.     *)
(* Random rolls are nondeterministic choices.                              *)
(***************************************************************************)
EXTENDS Integers, Sequences, FiniteSets, TLC

VARIABLES
    actors_byid,         \* Location.actors_byid : id -> Actor
    actors_coord_to_id,  \* Location.actors_coord_to_id : coord -> id
    actors_dead,         \* Location.actors_dead : set of ids
    actors_counter,      \* Location.actors_counter
    map,                 \* Location.map : coord -> Tile
    items,               \* Location.items : coord -> Item (floor items)
    light_map,           \* Location.light_map : coord -> light
    player_id,           \* Location.player_id : Option<Id>
    ids_to_move,         \* Engine.ids_to_move : Vec<Id>
    op,                  \* the operation that produced the state, and its path
    round,               \* history of the Engine round in progress
    ctl,                 \* Controller: its state, its loops, the four channels
    steps                \* number of operations applied so far

vars == <<actors_byid, actors_coord_to_id, actors_dead, actors_counter, map,
          items, light_map, player_id, ids_to_move, op, round, ctl, steps>>

-----------------------------------------------------------------------------
(* Bounds of the model *)

\* operations applied in one behaviour
MaxSteps == 2
\* ids Location::spawn may hand out
MaxActors == 3
\* calls of Engine::player_act and Engine::one_actor_act in one behaviour
MaxEngineSteps == 4
\* rounds of the loop of Controller::run completed in one behaviour
MaxTicks == 1
\* inventory calls on one actor
MaxEquips == 3

-----------------------------------------------------------------------------
(* Option<T>, HashMap<K, V> *)

None == <<>>
Some(x) == <<x>>

EmptyMap == [k \in {} |-> 0]
MapInsert(m, k, v) == [x \in (DOMAIN m) \cup {k} |-> IF x = k THEN v ELSE m[x]]
MapRemove(m, k) == [x \in (DOMAIN m) \ {k} |-> m[x]]
Range(m) == {m[k] : k \in DOMAIN m}
Max2(a, b) == IF a < b THEN b ELSE a
Min2(a, b) == IF a < b THEN a ELSE b

-----------------------------------------------------------------------------
(* hex2d: Coordinate, Direction, Angle, Position *)

\* the part of the plane the model's maps are defined on
Region == {<<x, y>> : x \in -1..4, y \in -2..2}

Directions == 0..5
\* Direction::to_coordinate, in the order YZ, XZ, XY, ZY, ZX, YX
DirVec == << <<0, 1>>, <<1, 0>>, <<1, -1>>, <<0, -1>>, <<-1, 0>>, <<-1, 1>> >>
Angles == {"Forward", "Right", "RightBack", "Back", "LeftBack", "Left"}
AngleSteps == [Forward |-> 0, Right |-> 1, RightBack |-> 2, Back |-> 3,
               LeftBack |-> 4, Left |-> 5]

\* Direction + Angle
DirAdd(d, a) == (d + AngleSteps[a]) % 6
\* Direction - Direction
DirSub(d1, d2) == CHOOSE a \in Angles : AngleSteps[a] = (d1 - d2 + 6) % 6
\* Coordinate + Coordinate
CoordAdd(c, v) == <<c[1] + v[1], c[2] + v[2]>>
\* Coordinate + Direction
Step(c, d) == CoordAdd(c, DirVec[d + 1])
Abs(n) == IF n < 0 THEN -n ELSE n
\* Coordinate::distance
Distance(a, b) ==
    (Abs(a[1] - b[1]) + Abs(a[2] - b[2]) + Abs((a[1] + a[2]) - (b[1] + b[2]))) \div 2
\* Coordinate::for_each_in_range
InRange(c, r) == {x \in Region : Distance(c, x) <= r}
\* Coordinate::neighbors
Neighbors(c) == {Step(c, d) : d \in Directions}
\* Coordinate::directions_to
DirectionsTo(a, b) == {d \in Directions : Distance(Step(a, d), b) < Distance(a, b)}

Pos(c, d) == [coord |-> c, dir |-> d]
\* Position + Coordinate
PosMove(p, v) == [coord |-> CoordAdd(p.coord, v), dir |-> p.dir]
\* Position + Angle
PosTurn(p, a) == [coord |-> p.coord, dir |-> DirAdd(p.dir, a)]

-----------------------------------------------------------------------------
(* tile::Tile *)

Tile(type, feature, light, area) ==
    [type |-> type, feature |-> feature, light |-> light, area |-> area]

WallTile == Tile("Wall", "None", 0, None)

\* Tile::is_passable
TileIsPassable(t) == t.type # "Wall" /\ t.feature # "DoorClosed"
\* Tile::opaqueness
TileOpaqueness(t) ==
    IF t.type = "Wall" \/ t.feature = "DoorClosed" THEN 1000
    ELSE IF t.type = "Tree" THEN 15
    ELSE 1
\* Tile::add_feature
TileAddFeature(t, f) == [t EXCEPT !.feature = f]

-----------------------------------------------------------------------------
(* actor::Stats, actor::EffectiveStats *)

Stats(int, dex, str_, max_hp, max_mp, max_sp, ac, ev, infravision, vision) ==
    [int |-> int, dex |-> dex, str_ |-> str_, max_hp |-> max_hp,
     max_mp |-> max_mp, max_sp |-> max_sp, ac |-> ac, ev |-> ev,
     infravision |-> infravision, vision |-> vision]

\* impl Default for Stats
StatsDefault == Stats(0, 0, 0, 0, 0, 0, 0, 0, 0, 0)

\* impl Default for EffectiveStats
EffectiveStatsDefault ==
    [base |-> StatsDefault, melee_dmg |-> 0, melee_acc |-> 0, melee_str_req |-> 0]

\* impl Add for Stats
StatsAdd(a, b) == [f \in DOMAIN a |-> a[f] + b[f]]
\* impl Sub for Stats
StatsSub(a, b) == [f \in DOMAIN a |-> a[f] - b[f]]
\* impl Add for EffectiveStats
EffAdd(a, b) ==
    [base |-> StatsAdd(a.base, b.base),
     melee_dmg |-> a.melee_dmg + b.melee_dmg,
     melee_acc |-> a.melee_acc + b.melee_acc,
     melee_str_req |-> a.melee_str_req + b.melee_str_req]
\* impl Sub for EffectiveStats
EffSub(a, b) ==
    [base |-> StatsSub(a.base, b.base),
     melee_dmg |-> a.melee_dmg - b.melee_dmg,
     melee_acc |-> a.melee_acc - b.melee_acc,
     melee_str_req |-> a.melee_str_req - b.melee_str_req]

\* Stats::to_effective
ToEffective(s) == [EffectiveStatsDefault EXCEPT !.base = s]

Races == {"Human", "Rat"}
\* conts::HUMAN_STATS, conts::RAT_STATS
RaceStats ==
    [Human |-> Stats(0, 1, 2, 2, 0, 8, 0, 0, 0, 2),
     Rat   |-> Stats(0, 1, 1, 1, 0, 1, 0, 0, 1, 1)]
\* Stats::new
StatsNew(race) == RaceStats[race]

-----------------------------------------------------------------------------
(* item::Item *)

Slots == {"Head", "Feet", "LHand", "RHand", "Body", "Cloak", "Quick"}

Item(id, slot, usable, stats) ==
    [id |-> id, slot |-> slot, usable |-> usable, stats |-> stats]

\* a weapon: more damage, needs strength
Sword == Item("sword", Some("RHand"), FALSE,
              [EffectiveStatsDefault EXCEPT !.melee_dmg = 1, !.melee_str_req = 3])
\* a body armour
Armor == Item("armor", Some("Body"), FALSE,
              [EffectiveStatsDefault EXCEPT !.base.ac = 1])

\* a second weapon
Dagger == Item("dagger", Some("RHand"), FALSE,
               [EffectiveStatsDefault EXCEPT !.melee_dmg = 2, !.melee_acc = 1])
\* a helmet and a pair of boots
Helmet == Item("helmet", Some("Head"), FALSE,
               [EffectiveStatsDefault EXCEPT !.base.ac = 1])
Boots == Item("boots", Some("Feet"), FALSE,
              [EffectiveStatsDefault EXCEPT !.base.ev = 1])

\* the letters Actor::add_item tries, in order
Letters == <<"a", "b", "c">>

-----------------------------------------------------------------------------
(* game::Action *)

Action(kind, arg) == [kind |-> kind, arg |-> arg]
Wait == Action("Wait", "")
Pick == Action("Pick", "")
Charge == Action("Charge", "")
Descend == Action("Descend", "")
Turn(a) == Action("Turn", a)
Move(a) == Action("Move", a)
Spin(a) == Action("Spin", a)
Equip(ch) == Action("Equip", ch)

\* Action::could_be_attack
CouldBeAttack(action) ==
    \/ action.kind = "Charge"
    \/ action.kind = "Move" /\ action.arg \in {"Forward", "Left", "Right"}

-----------------------------------------------------------------------------
(* hex2dext::algo::los, hex2dext::algo::los2 *)

\* map[coord], a wall where the map has no tile
TileAt(mp, c) == IF c \in DOMAIN mp THEN mp[c] ELSE WallTile
\* light_map[coord], 0 where nothing was recorded
LightAt(lm, c) == IF c \in DOMAIN lm THEN lm[c] ELSE 0

\* One ray sweep: the coordinates reached from p with the light left there. A
\* tile takes its opaqueness from the light that passes on; the sweep widens
\* by one direction to each side of d.
RECURSIVE LosRec(_, _, _, _)
LosRec(opq, p, light, d) ==
    IF light <= 0 \/ p \notin Region
    THEN {}
    ELSE {<<p, light>>} \cup
         (IF opq[p] >= light
          THEN {}
          ELSE UNION {LosRec(opq, Step(p, (d + t) % 6), light - opq[p], d) :
                        t \in {0, 1, 5}})

\* algo::los::los(opaqueness, visible, light, pos, dirs): the calls of `visible`
Los(opq, light, start, dirs) == UNION {LosRec(opq, start, light, d) : d \in dirs}

-----------------------------------------------------------------------------
(* actor::Actor *)

\* Actor::new
ActorNew(race, pos) ==
    [hp |-> StatsNew(race).max_hp, mp |-> StatsNew(race).max_mp,
     sp |-> StatsNew(race).max_sp,
     saved_hp |-> StatsNew(race).max_hp, saved_mp |-> StatsNew(race).max_mp,
     saved_sp |-> StatsNew(race).max_sp,
     player |-> FALSE, pre_pos |-> None, pos |-> pos, acted |-> FALSE,
     race |-> race, base_stats |-> StatsNew(race),
     mod_stats |-> EffectiveStatsDefault, stats |-> EffectiveStatsDefault,
     in_los |-> {}, temporary_los |-> {}, visible |-> {}, known |-> {},
     known_areas |-> {}, discovered |-> {}, discovered_areas |-> {},
     heared |-> EmptyMap, noise_emision |-> 0, light_emision |-> 0,
     action_cd |-> 0,
     items_letters |-> {}, items_equipped |-> EmptyMap,
     items_backpack |-> EmptyMap,
     was_attacked_by |-> <<>>, did_attack |-> <<>>]

\* Actor::set_player
SetPlayer(a) == [a EXCEPT !.player = TRUE]

\* Actor::head
ActorHead(a) == Step(a.pos.coord, a.pos.dir)

\* Actor::is_dead
IsDead(a) == a.hp <= 0

\* Actor::can_perform_action
CanPerformAction(a) == ~IsDead(a) /\ a.action_cd = 0

\* a melee attack that costs no stamina
MeleeSpCostFree(a) == 0

\* Actor::melee_sp_cost
MeleeSpCost(a) == Max2(0, a.stats.melee_str_req - a.stats.base.str_)
\* Actor::charge_sp_cost
ChargeSpCost(a) == Max2(0, 10 - a.stats.base.str_)
\* Actor::can_attack_sp
CanAttackSp(a) == a.sp >= MeleeSpCost(a)
\* Actor::can_charge_sp
CanChargeSp(a) == a.sp >= ChargeSpCost(a)
\* Actor::can_attack
CanAttack(a) == a.action_cd = 0 /\ CanAttackSp(a)

\* Actor::pos_after_action
PosAfterAction(a, action) ==
    CASE action.kind \in {"Wait", "Pick", "Equip", "Descend", "Fire"} -> <<a.pos>>
      [] action.kind = "Turn" -> <<PosTurn(a.pos, action.arg)>>
      [] action.kind = "Move" ->
            <<PosMove(a.pos, DirVec[DirAdd(a.pos.dir, action.arg) + 1])>>
      [] action.kind = "Charge" ->
            IF CanChargeSp(a)
            THEN <<PosMove(a.pos, DirVec[a.pos.dir + 1]),
                   PosMove(PosMove(a.pos, DirVec[a.pos.dir + 1]), DirVec[a.pos.dir + 1])>>
            ELSE <<PosMove(a.pos, DirVec[a.pos.dir + 1])>>
      [] action.kind = "Spin" ->
            IF action.arg = "Right"
            THEN <<PosTurn(PosMove(a.pos, DirVec[DirAdd(a.pos.dir, "Right") + 1]), "Left")>>
            ELSE IF action.arg = "Left"
            THEN <<PosTurn(PosMove(a.pos, DirVec[DirAdd(a.pos.dir, "Left") + 1]), "Right")>>
            ELSE <<a.pos>>

\* post_action with a Charge that takes its cost whatever is left
PostActionOverdraws(a, action) ==
    CASE action.kind = "Wait" ->
            [a EXCEPT !.sp = Min2(a.stats.base.max_sp, a.sp + 1)]
      [] action.kind = "Charge" ->
            [a EXCEPT !.sp = a.sp - ChargeSpCost(a), !.acted = TRUE]
      [] OTHER -> [a EXCEPT !.acted = TRUE]

\* post_action with a Wait that is not capped at max_sp
PostActionUncapped(a, action) ==
    CASE action.kind = "Wait" ->
            [a EXCEPT !.sp = a.sp + 1]
      [] action.kind = "Charge" ->
            [a EXCEPT !.sp = Max2(0, a.sp - ChargeSpCost(a)), !.acted = TRUE]
      [] OTHER -> [a EXCEPT !.acted = TRUE]

\* Actor::post_action
PostAction(a, action) ==
    CASE action.kind = "Wait" ->
            [a EXCEPT !.sp = Min2(a.stats.base.max_sp, a.sp + 1)]
      [] action.kind = "Charge" ->
            [a EXCEPT !.sp = Max2(0, a.sp - ChargeSpCost(a)), !.acted = TRUE]
      [] OTHER -> [a EXCEPT !.acted = TRUE]

\* At::light_as_seen_by
LightAsSeenBy(coord, astate, mp, lm) ==
    IF TileOpaqueness(TileAt(mp, coord)) < 20
    THEN LightAt(lm, coord)
    ELSE LET seen == {IF TileOpaqueness(TileAt(mp, Step(coord, (dir + 3) % 6))) < 20
                      THEN LightAt(lm, Step(coord, (dir + 3) % 6))
                      ELSE 0 : dir \in DirectionsTo(astate.pos.coord, coord)}
         IN IF seen = {} THEN 0 ELSE CHOOSE m \in seen : \A x \in seen : x <= m

\* los_to_visible without the rule for the facing cell
LosToVisibleNoHead(a, mp, lm, los) ==
    {coord \in los :
        IF LightAt(lm, coord) > 0 THEN TRUE
        ELSE IF Distance(a.pos.coord, coord) <= a.stats.base.infravision THEN TRUE
        ELSE IF TileOpaqueness(TileAt(mp, coord)) > 10
             THEN LightAsSeenBy(coord, a, mp, lm) > 0
        ELSE FALSE}

\* Actor::los_to_visible
LosToVisible(a, mp, lm, los) ==
    {coord \in los :
        IF LightAt(lm, coord) > 0 THEN TRUE
        ELSE IF Distance(a.pos.coord, coord) <= a.stats.base.infravision THEN TRUE
        ELSE IF coord = ActorHead(a) THEN TRUE
        ELSE IF TileOpaqueness(TileAt(mp, coord)) > 10
             THEN LightAsSeenBy(coord, a, mp, lm) > 0
        ELSE FALSE}

\* Actor::add_current_los_to_temporary_los
AddCurrentLosToTemporaryLos(a, mp) ==
    [a EXCEPT !.temporary_los =
        @ \cup {r[1] : r \in Los([c \in Region |-> TileOpaqueness(TileAt(mp, c))],
                                 a.stats.base.vision, a.pos.coord, {a.pos.dir})}]

\* the areas of the discovered coordinates that are not known yet
NewAreas(a, mp) ==
    {TileAt(mp, c).area[1] : c \in {x \in a.discovered : TileAt(mp, x).area # None}}
        \ a.known_areas

\* postprocess_visibile that replaces known by what is seen now
PostprocessVisibileForgets(a, mp, lm) ==
    LET total_visible == LosToVisible(a, mp, lm, a.temporary_los)
        a1 == AddCurrentLosToTemporaryLos([a EXCEPT !.temporary_los = {}], mp)
        visible == LosToVisible(a1, mp, lm, a1.temporary_los)
        fresh == (total_visible \cup visible) \ a1.known
        a2 == [a1 EXCEPT !.known = total_visible \cup visible,
                         !.discovered = @ \cup fresh]
        areas == NewAreas(a2, mp)
    IN [a2 EXCEPT !.known_areas = @ \cup areas,
                  !.discovered_areas = @ \cup areas,
                  !.in_los = a2.temporary_los,
                  !.visible = visible]

\* postprocess_visibile that remembers the line of sight gathered during the
\* tick but not the one taken at its end
PostprocessVisibileSkipsCurrent(a, mp, lm) ==
    LET total_visible == LosToVisible(a, mp, lm, a.temporary_los)
        a1 == AddCurrentLosToTemporaryLos([a EXCEPT !.temporary_los = {}], mp)
        visible == LosToVisible(a1, mp, lm, a1.temporary_los)
        fresh == total_visible \ a1.known
        a2 == [a1 EXCEPT !.known = @ \cup fresh, !.discovered = @ \cup fresh]
        areas == NewAreas(a2, mp)
    IN [a2 EXCEPT !.known_areas = @ \cup areas,
                  !.discovered_areas = @ \cup areas,
                  !.in_los = a2.temporary_los,
                  !.visible = visible]

\* Actor::postprocess_visibile
PostprocessVisibile(a, mp, lm) ==
    LET total_visible == LosToVisible(a, mp, lm, a.temporary_los)
        a1 == AddCurrentLosToTemporaryLos([a EXCEPT !.temporary_los = {}], mp)
        visible == LosToVisible(a1, mp, lm, a1.temporary_los)
        fresh == (total_visible \cup visible) \ a1.known
        a2 == [a1 EXCEPT !.known = @ \cup fresh, !.discovered = @ \cup fresh]
        areas == NewAreas(a2, mp)
    IN [a2 EXCEPT !.known_areas = @ \cup areas,
                  !.discovered_areas = @ \cup areas,
                  !.in_los = a2.temporary_los,
                  !.visible = visible]

\* Actor::save_stats
SaveStats(a) == [a EXCEPT !.saved_hp = a.hp, !.saved_mp = a.mp, !.saved_sp = a.sp]

\* Actor::noise_makes
NoiseMakes(a, noise) ==
    IF a.noise_emision < noise THEN [a EXCEPT !.noise_emision = noise] ELSE a

\* Actor::noise_hears
NoiseHears(a, coord, type_) == [a EXCEPT !.heared = MapInsert(@, coord, type_)]

\* Actor::pre_any_tick
ActorPreAnyTick(a) ==
    [a EXCEPT !.pre_pos = Some(a.pos), !.did_attack = <<>>,
              !.was_attacked_by = <<>>, !.temporary_los = {},
              !.discovered = {}, !.discovered_areas = {},
              !.noise_emision = 0, !.heared = EmptyMap]

\* an own tick that lowers the cooldown whatever it is
PreOwnTickUnguarded(a) ==
    LET a1 == [a EXCEPT !.action_cd = @ - 1, !.acted = FALSE]
    IN IF CanPerformAction(a1) THEN SaveStats(a1) ELSE a1

\* Actor::pre_own_tick
PreOwnTick(a) ==
    LET a1 == [a EXCEPT !.action_cd = IF @ > 0 THEN @ - 1 ELSE @, !.acted = FALSE]
    IN IF CanPerformAction(a1) THEN SaveStats(a1) ELSE a1

\* Actor::post_own_tick
PostOwnTick(a, mp, lm) ==
    IF a.pre_pos # Some(a.pos) THEN PostprocessVisibile(a, mp, lm) ELSE a

\* recalculate_stats that adds the derived terms to the stats of the tick before
RecalculateStatsAccumulates(a) ==
    LET s == EffAdd(ToEffective(a.base_stats), a.mod_stats)
    IN [a EXCEPT !.stats =
          [base |-> [s.base EXCEPT !.ac = @ + (s.base.str_ \div 2),
                                   !.ev = @ + (s.base.dex \div 2),
                                   !.max_sp = a.stats.base.max_sp + s.base.str_ * 2,
                                   !.max_mp = @ + s.base.int * 2],
           melee_dmg |-> a.stats.melee_dmg + s.base.str_,
           melee_acc |-> s.melee_acc + s.base.dex,
           melee_str_req |-> s.melee_str_req]]

\* Actor::recalculate_stats
RecalculateStats(a) ==
    LET s == EffAdd(ToEffective(a.base_stats), a.mod_stats)
    IN [a EXCEPT !.stats =
          [base |-> [s.base EXCEPT !.ac = @ + (s.base.str_ \div 2),
                                   !.ev = @ + (s.base.dex \div 2),
                                   !.max_sp = @ + s.base.str_ * 2,
                                   !.max_mp = @ + s.base.int * 2],
           melee_dmg |-> s.melee_dmg + s.base.str_,
           melee_acc |-> s.melee_acc + s.base.dex,
           melee_str_req |-> s.melee_str_req]]

\* Actor::post_any_tick
ActorPostAnyTick(a) == RecalculateStats(a)

\* Actor::moved
Moved(a, mp, new_pos) ==
    NoiseMakes(AddCurrentLosToTemporaryLos([a EXCEPT !.pos = new_pos], mp), 2)

\* Actor::changed_level
ActorChangedLevel(a) == [a EXCEPT !.known = {}, !.known_areas = {}]

-----------------------------------------------------------------------------
(* actor::Actor: inventory *)

\* Actor::item_letter_taken
ItemLetterTaken(a, ch) ==
    \/ ch \in a.items_letters
    \/ \E slot \in DOMAIN a.items_equipped : a.items_equipped[slot][1] = ch

\* Actor::add_item: the item goes under the first free letter; with no free
\* letter it is not stored
AddItem(a, item) ==
    LET free == {i \in 1..Len(Letters) : ~ItemLetterTaken(a, Letters[i])}
        first == CHOOSE i \in free : \A j \in free : i <= j
    IN IF free = {}
       THEN a
       ELSE [a EXCEPT !.items_letters = @ \cup {Letters[first]},
                      !.items_backpack = MapInsert(@, Letters[first], item)]

\* the cooldown of putting a slot on or off
SlotCooldown(slot) == IF slot = "Body" THEN 4 ELSE 2

\* unequip_slot that keeps the stats of the item in mod_stats
UnequipSlotKeepsStats(a, slot) ==
    IF slot \in DOMAIN a.items_equipped
    THEN [a EXCEPT !.items_equipped = MapRemove(@, slot),
                   !.items_backpack = MapInsert(@, a.items_equipped[slot][1],
                                                a.items_equipped[slot][2]),
                   !.action_cd = @ + SlotCooldown(slot)]
    ELSE a

\* Actor::unequip_slot
UnequipSlot(a, slot) ==
    IF slot \in DOMAIN a.items_equipped
    THEN [a EXCEPT !.items_equipped = MapRemove(@, slot),
                   !.mod_stats = EffSub(@, a.items_equipped[slot][2].stats),
                   !.items_backpack = MapInsert(@, a.items_equipped[slot][1],
                                                a.items_equipped[slot][2]),
                   !.action_cd = @ + SlotCooldown(slot)]
    ELSE a

\* Actor::unequip
Unequip(a, ch) ==
    LET found == {slot \in DOMAIN a.items_equipped : a.items_equipped[slot][1] = ch}
    IN IF found = {} THEN a ELSE UnequipSlot(a, CHOOSE slot \in found : TRUE)

\* Actor::equip
ActorEquip(a, item, ch) ==
    IF item.slot # None
    THEN LET a1 == UnequipSlot(a, item.slot[1])
         IN [a1 EXCEPT !.mod_stats = EffAdd(@, item.stats),
                       !.items_equipped = MapInsert(@, item.slot[1], <<ch, item>>),
                       !.action_cd = @ + SlotCooldown(item.slot[1])]
    ELSE [a EXCEPT !.items_backpack = MapInsert(@, ch, item)]

\* Actor::equip_switch; `used` is the result of Item::use_
EquipSwitch(a, ch, used) ==
    IF ch \in DOMAIN a.items_backpack
    THEN LET item == a.items_backpack[ch]
             a1 == [a EXCEPT !.items_backpack = MapRemove(@, ch)]
         IN IF item.usable
            THEN [(IF ~used THEN [a1 EXCEPT !.items_backpack = MapInsert(@, ch, item)]
                   ELSE a1) EXCEPT !.action_cd = @ + 2]
            ELSE ActorEquip(a1, item, ch)
    ELSE Unequip(a, ch)

-----------------------------------------------------------------------------
(* actor::Actor: melee *)

AttackResult(success, dmg, who, behind) ==
    [success |-> success, dmg |-> dmg, who |-> who, behind |-> behind]

\* doubling for every relative angle but Back
FromBehindAllButBack(dir, target) == DirSub(dir, target.pos.dir) # "Back"

\* the relative angles Actor::attacks doubles accuracy and damage for
FromBehind(dir, target) == DirSub(dir, target.pos.dir) \in {"Forward", "Left", "Right"}

\* damage that is never doubled
AttackDmgPlain(self, dir, target) ==
    IF ~CanAttackSp(self) THEN self.stats.melee_dmg \div 2 ELSE self.stats.melee_dmg

\* accuracy and damage of Actor::attacks before the rolls
AttackAcc(self, dir, target) ==
    LET acc == IF FromBehind(dir, target) THEN self.stats.melee_acc * 2
               ELSE self.stats.melee_acc
    IN IF ~CanAttackSp(self) THEN acc \div 2 ELSE acc
AttackDmg(self, dir, target) ==
    LET dmg == IF FromBehind(dir, target) THEN self.stats.melee_dmg * 2
               ELSE self.stats.melee_dmg
    IN IF ~CanAttackSp(self) THEN dmg \div 2 ELSE dmg

\* attacks that hurts the target whatever the roll says
AttacksHurtsOnMiss(self, dir, target, success, r1, r2) ==
    LET dmg == Max2(0, AttackDmg(self, dir, target) - Max2(r1, r2))
        self1 == IF ~CanAttackSp(self) THEN [self EXCEPT !.sp = 0]
                 ELSE [self EXCEPT !.sp = @ - MeleeSpCost(self)]
        target1 == NoiseMakes([target EXCEPT !.hp = @ - dmg], 7)
    IN << [self1 EXCEPT !.did_attack =
              Append(@, AttackResult(success, dmg, target.race, FromBehind(dir, target)))],
          [target1 EXCEPT !.was_attacked_by =
              Append(@, AttackResult(success, dmg, self.race, FromBehind(dir, target)))] >>

\* Actor::attacks; `success` is util::roll(acc, ev), r1 and r2 are the two
\* gen_range(0, ac + 1) samples. The result is <<self, target>>.
Attacks(self, dir, target, success, r1, r2) ==
    LET dmg == Max2(0, AttackDmg(self, dir, target) - Max2(r1, r2))
        self1 == IF ~CanAttackSp(self) THEN [self EXCEPT !.sp = 0]
                 ELSE [self EXCEPT !.sp = @ - MeleeSpCost(self)]
        target1 == IF success
                   THEN NoiseMakes([target EXCEPT !.hp = @ - dmg], 7)
                   ELSE target
    IN << [self1 EXCEPT !.did_attack =
              Append(@, AttackResult(success, dmg, target.race, FromBehind(dir, target)))],
          [target1 EXCEPT !.was_attacked_by =
              Append(@, AttackResult(success, dmg, self.race, FromBehind(dir, target)))] >>

-----------------------------------------------------------------------------
(* location::Location, as a value *)

\* the Location the variables hold
Loc ==
    [actors_byid |-> actors_byid, actors_coord_to_id |-> actors_coord_to_id,
     actors_dead |-> actors_dead, actors_counter |-> actors_counter,
     map |-> map, items |-> items, light_map |-> light_map,
     player_id |-> player_id]

\* Location::actors_ids
ActorsIds(L) == DOMAIN L.actors_byid
\* Location::actors_alive_ids
ActorsAliveIds(L) == {id \in DOMAIN L.actors_byid : ~IsDead(L.actors_byid[id])}

\* At::is_occupied
IsOccupied(L, coord) == coord \in DOMAIN L.actors_coord_to_id
\* At::is_passable
IsPassable(L, coord) == ~IsOccupied(L, coord) /\ TileIsPassable(TileAt(L.map, coord))

\* the largest value of a finite set of naturals, 0 for the empty set
MaxOf(S) == IF S = {} THEN 0 ELSE CHOOSE m \in S : \A x \in S : x <= m

\* the opaqueness a light source at pos sweeps with
LightOpaqueness(L, pos) ==
    [c \in Region |-> IF c = pos THEN 0 ELSE TileOpaqueness(TileAt(L.map, c))]

\* what the light-emitting tiles report to the light map
TileLight(L) ==
    UNION {Los(LightOpaqueness(L, pos), L.map[pos].light, pos, Directions) :
             pos \in {c \in DOMAIN L.map : L.map[c].light > 0}}

\* what the light-emitting actors of the coordinate index report
ActorLight(L) ==
    UNION {Los(LightOpaqueness(L, L.actors_byid[id].pos.coord),
               L.actors_byid[id].light_emision,
               L.actors_byid[id].pos.coord, Directions) :
             id \in {i \in Range(L.actors_coord_to_id) :
                       L.actors_byid[i].light_emision > 0}}

\* the light map a set of reports <<coord, light>> leaves: the largest report
LightOf(reports) ==
    [c \in Region |-> MaxOf({r[2] : r \in {x \in reports : x[1] = c}})]

\* recalculate_light_map that starts from the light map it has instead of
\* an empty one and adds to it
RecalculateLightMapAdds(L) ==
    LET new == LightOf(TileLight(L) \cup ActorLight(L))
    IN [L EXCEPT !.light_map = [c \in Region |-> @[c] + new[c]]]

\* Location::recalculate_light_map
RecalculateLightMap(L) ==
    [L EXCEPT !.light_map = LightOf(TileLight(L) \cup ActorLight(L))]

\* a callback of recalculate_light_map that adds the light it is given
RECURSIVE LightAddedAt(_, _)
LightAddedAt(cur, lights) ==
    IF lights = {} THEN cur
    ELSE LET l == CHOOSE x \in lights : TRUE
         IN LightAddedAt(cur + l, lights \ {l})
LightReportedAdds(lm, reports) ==
    [c \in DOMAIN lm |->
        LightAddedAt(lm[c], {r[2] : r \in {x \in reports : x[1] = c}})]

\* the callback of recalculate_light_map on one entry of the light map, for
\* the lights a sweep reports for it: if light_map[coord] < light
\* { light_map[coord] = light }
RECURSIVE LightReportedAt(_, _)
LightReportedAt(cur, lights) ==
    IF lights = {} THEN cur
    ELSE LET l == CHOOSE x \in lights : TRUE
         IN LightReportedAt(IF cur < l THEN l ELSE cur, lights \ {l})

\* the callback of recalculate_light_map, called for every <<coord, light>>
\* a sweep reports; a call touches the entry of its coordinate only
LightReported(lm, reports) ==
    [c \in DOMAIN lm |->
        LightReportedAt(lm[c], {r[2] : r \in {x \in reports : x[1] = c}})]

\* the light sources of recalculate_light_map: the tiles with light, the
\* indexed actors with light_emision, as <<coordinate, light>>
LightTiles(L) == {<<c, L.map[c].light>> : c \in {x \in DOMAIN L.map : L.map[x].light > 0}}
LightActors(L) ==
    {<<L.actors_byid[id].pos.coord, L.actors_byid[id].light_emision>> :
        id \in {i \in Range(L.actors_coord_to_id) : L.actors_byid[i].light_emision > 0}}

\* the two loops of recalculate_light_map, over the sources in the order the
\* maps hand them out
RECURSIVE LightSwept(_, _, _)
LightSwept(L, lm, sources) ==
    IF sources = <<>> THEN lm
    ELSE LightSwept(L, LightReported(lm, Los(LightOpaqueness(L, sources[1][1]),
                                             sources[1][2], sources[1][1], Directions)),
                    Tail(sources))

\* noise that carries one step less than the emission of its source
NoiseSourcesShort(L, target) ==
    {id \in ActorsAliveIds(L) :
        /\ L.actors_byid[id].noise_emision > 0
        /\ \E coord \in InRange(L.actors_byid[id].pos.coord,
                                L.actors_byid[id].noise_emision - 1) :
              /\ coord \in DOMAIN L.actors_coord_to_id
              /\ L.actors_coord_to_id[coord] = target}

\* the living sources whose noise reaches a coordinate indexed to target
NoiseSources(L, target) ==
    {id \in ActorsAliveIds(L) :
        /\ L.actors_byid[id].noise_emision > 0
        /\ \E coord \in InRange(L.actors_byid[id].pos.coord,
                                L.actors_byid[id].noise_emision) :
              /\ coord \in DOMAIN L.actors_coord_to_id
              /\ L.actors_coord_to_id[coord] = target}

\* the entries the sources add to a heared map, one key per source coordinate
RECURSIVE HearAll(_, _, _)
HearAll(L, a, sources) ==
    IF sources = {}
    THEN a
    ELSE LET id == CHOOSE i \in sources : \A j \in sources : i <= j
         IN HearAll(L,
                    NoiseHears(a, L.actors_byid[id].pos.coord,
                               <<"Creature", L.actors_byid[id].race>>),
                    sources \ {id})

\* Location::recalculate_noise
RecalculateNoise(L) ==
    [L EXCEPT !.actors_byid =
        [t \in DOMAIN L.actors_byid |->
            HearAll(L, L.actors_byid[t], NoiseSources(L, t))]]

\* Location::pre_any_tick
PreAnyTick(L) ==
    [L EXCEPT !.actors_byid =
        [id \in DOMAIN L.actors_byid |->
            IF id \in ActorsAliveIds(L)
            THEN ActorPreAnyTick(L.actors_byid[id])
            ELSE L.actors_byid[id]]]

-----------------------------------------------------------------------------
(* hex2dext::algo::bfs::Traverser, AtMut::drop_item, AtMut::pick_item *)

\* Traverser::find: the coordinates are explored in the order of their
\* distance from the start, through the start and the passable tiles; the
\* result is a goal at the smallest distance, None when none is reached
RECURSIVE BfsFind(_, _, _, _)
BfsFind(L, start, frontier, visited) ==
    LET goals == {c \in frontier :
                    TileIsPassable(TileAt(L.map, c)) /\ c \notin DOMAIN L.items}
        next == UNION {Neighbors(c) :
                         c \in {x \in frontier :
                                  x = start \/ TileIsPassable(TileAt(L.map, x))}}
                    \ visited
    IN IF goals # {} THEN Some(CHOOSE c \in goals : TRUE)
       ELSE IF next = {} THEN None
       ELSE BfsFind(L, start, next, visited \cup next)

\* drop_item that destroys the item whatever the search finds
DropItemDestroys(L, coord, item) == L

\* drop_item that puts the item where it is called, whatever lies there
DropItemOnTheSpot(L, coord, item) ==
    [L EXCEPT !.items = MapInsert(@, coord, item)]

\* AtMut::drop_item
DropItem(L, coord, item) ==
    LET found == BfsFind(L, coord, {coord}, {coord})
    IN IF found = None THEN L
       ELSE [L EXCEPT !.items = MapInsert(@, found[1], item)]

\* AtMut::pick_item: <<the location, Option<Item>>>
PickItem(L, coord) ==
    IF coord \in DOMAIN L.items
    THEN <<[L EXCEPT !.items = MapRemove(@, coord)], Some(L.items[coord])>>
    ELSE <<L, None>>

-----------------------------------------------------------------------------
(* location::Location: tick-end maintenance *)

\* the order in which the slots of items_equipped are visited
SlotOrder == <<"Head", "Feet", "LHand", "RHand", "Body", "Cloak", "Quick">>

\* the items of items_backpack, then those of items_equipped
CarriedItems(a) ==
    LET letters == SelectSeq(Letters, LAMBDA ch : ch \in DOMAIN a.items_backpack)
        slots == SelectSeq(SlotOrder, LAMBDA sl : sl \in DOMAIN a.items_equipped)
    IN [i \in 1..Len(letters) |-> a.items_backpack[letters[i]]]
       \o [i \in 1..Len(slots) |-> a.items_equipped[slots[i]][2]]

\* drop_item for each item of a sequence, in order
RECURSIVE DropAll(_, _, _)
DropAll(L, coord, its) ==
    IF its = <<>> THEN L
    ELSE DropAll(DropItem(L, coord, its[1]), coord, Tail(its))

\* the death sweep without the insert into actors_dead
SweepOneUnrecorded(L, id) ==
    LET a == L.actors_byid[id]
        L1 == DropAll(L, a.pos.coord, CarriedItems(a))
    IN [L1 EXCEPT !.actors_byid[id] =
                      [a EXCEPT !.items_backpack = EmptyMap,
                                !.items_equipped = EmptyMap]]

\* one dead actor leaves the game: its items go to the floor, its tables
\* are cleared, it is put back into actors_byid and recorded in actors_dead
SweepOne(L, id) ==
    LET a == L.actors_byid[id]
        L1 == DropAll(L, a.pos.coord, CarriedItems(a))
    IN [L1 EXCEPT !.actors_byid[id] =
                      [a EXCEPT !.items_backpack = EmptyMap,
                                !.items_equipped = EmptyMap],
                  !.actors_dead = @ \cup {id}]

\* the death sweep of Location::post_any_tick
RECURSIVE SweepDead(_, _)
SweepDead(L, ids) ==
    IF ids = {} THEN L
    ELSE LET id == CHOOSE i \in ids : \A j \in ids : i <= j
         IN SweepDead(IF IsDead(L.actors_byid[id]) /\ id \notin L.actors_dead
                      THEN SweepOne(L, id) ELSE L,
                      ids \ {id})

\* post_any_tick without the re-keying: the entries of living actors stay
\* under the coordinates they were entered with
RebuildIndexKeepsKeys(L) ==
    [L EXCEPT !.actors_coord_to_id =
        [c \in {x \in DOMAIN @ : ~IsDead(L.actors_byid[@[x]])} |-> @[c]]]

\* post_any_tick without the filter: the entries of the dead are re-keyed
\* and kept like those of the living
RebuildIndexKeepsDead(L) ==
    LET all == Range(L.actors_coord_to_id)
    IN [L EXCEPT !.actors_coord_to_id =
          [c \in {L.actors_byid[id].pos.coord : id \in all} |->
              CHOOSE id \in all : L.actors_byid[id].pos.coord = c]]

\* the coordinate index Location::post_any_tick collects: the entries of
\* living actors, each under the actor's current coordinate
RebuildIndex(L) ==
    LET live == {id \in Range(L.actors_coord_to_id) : ~IsDead(L.actors_byid[id])}
    IN [L EXCEPT !.actors_coord_to_id =
          [c \in {L.actors_byid[id].pos.coord : id \in live} |->
              CHOOSE id \in live : L.actors_byid[id].pos.coord = c]]

\* the stats recalculation of Location::post_any_tick
RecalculateAlive(L) ==
    [L EXCEPT !.actors_byid =
        [id \in DOMAIN L.actors_byid |->
            IF id \in ActorsAliveIds(L)
            THEN ActorPostAnyTick(L.actors_byid[id])
            ELSE L.actors_byid[id]]]

\* Location::post_any_tick
PostAnyTick(L) ==
    RecalculateNoise(RecalculateLightMap(RebuildIndex(
        SweepDead(RecalculateAlive(L), ActorsIds(L)))))

-----------------------------------------------------------------------------
(* location::Location: spawn, skip_act, act *)

\* Actor::post_spawn
PostSpawn(a) == RecalculateStats(a)

\* Location::spawn: unimplemented!() for a coordinate that is in the index
SpawnPanics(L, astate) == astate.pos.coord \in DOMAIN L.actors_coord_to_id

\* spawn that gives the new actor the smallest id that is not stored
SpawnFillsGaps(L, astate) ==
    LET L1 == PreAnyTick(L)
        id == CHOOSE i \in 0..L1.actors_counter :
                /\ i \notin DOMAIN L1.actors_byid
                /\ \A j \in 0..(i - 1) : j \in DOMAIN L1.actors_byid
        L2 == [L1 EXCEPT !.actors_counter = IF id = @ THEN @ + 1 ELSE @,
                         !.actors_coord_to_id = MapInsert(@, astate.pos.coord, id)]
        a1 == PostOwnTick(PostSpawn(PreOwnTick(astate)), L2.map, L2.light_map)
    IN PostAnyTick([L2 EXCEPT !.actors_byid = MapInsert(@, id, a1)])

\* Location::remove
Remove(L, id) ==
    IF id \in DOMAIN L.actors_byid
    THEN [L EXCEPT !.actors_byid = MapRemove(@, id),
                   !.actors_coord_to_id = MapRemove(@, L.actors_byid[id].pos.coord)]
    ELSE L

\* Location::spawn, for a coordinate that is not in the index
Spawn(L, astate) ==
    LET L1 == PreAnyTick(L)
        id == L1.actors_counter
        L2 == [L1 EXCEPT !.actors_counter = @ + 1,
                         !.actors_coord_to_id = MapInsert(@, astate.pos.coord, id)]
        a1 == PostOwnTick(PostSpawn(PreOwnTick(astate)), L2.map, L2.light_map)
    IN PostAnyTick([L2 EXCEPT !.actors_byid = MapInsert(@, id, a1)])

\* Location::spawn_player
SpawnPlayer(L, actor) ==
    [Spawn(L, actor) EXCEPT !.player_id = Some(L.actors_counter)]

\* Location::skip_act
SkipAct(L, id) ==
    LET L1 == PreAnyTick(L)
        a1 == PostOwnTick(PreOwnTick(L1.actors_byid[id]), L1.map, L1.light_map)
    IN PostAnyTick([L1 EXCEPT !.actors_byid[id] = a1])

\* the random outcomes one call of act may draw
Rolls(success, r1, r2, used) == [success |-> success, r1 |-> r1, r2 |-> r2, used |-> used]

\* an attack that act resolves whatever stamina the attacker has
ActAttackWhenTired(st, action, new_pos, rnd) ==
    LET dir == IF action.kind = "Move"
               THEN DirAdd(st.actor.pos.dir, action.arg)
               ELSE st.actor.pos.dir
        target_id == st.L.actors_coord_to_id[new_pos.coord]
        res == Attacks(st.actor, dir, st.L.actors_byid[target_id],
                       rnd.success, rnd.r1, rnd.r2)
    IN [L |-> [st.L EXCEPT !.actors_byid[target_id] = res[2]],
        actor |-> res[1], stop |-> TRUE, target |-> Some(target_id)]

\* an attack after which the loop of act goes on
ActAttackGoesOn(st, action, new_pos, rnd) ==
    IF ~CanAttack(st.actor)
    THEN [st EXCEPT !.stop = TRUE]
    ELSE LET dir == IF action.kind = "Move"
                    THEN DirAdd(st.actor.pos.dir, action.arg)
                    ELSE st.actor.pos.dir
             target_id == st.L.actors_coord_to_id[new_pos.coord]
             res == Attacks(st.actor, dir, st.L.actors_byid[target_id],
                            rnd.success, rnd.r1, rnd.r2)
         IN [L |-> [st.L EXCEPT !.actors_byid[target_id] = res[2]],
             actor |-> res[1], stop |-> FALSE, target |-> Some(target_id)]

\* the attack of Location::act on the actor indexed at new_pos.coord
ActAttack(st, action, new_pos, rnd) ==
    IF ~CanAttack(st.actor)
    THEN [st EXCEPT !.stop = TRUE]
    ELSE LET dir == IF action.kind = "Move"
                    THEN DirAdd(st.actor.pos.dir, action.arg)
                    ELSE st.actor.pos.dir
             target_id == st.L.actors_coord_to_id[new_pos.coord]
             res == Attacks(st.actor, dir, st.L.actors_byid[target_id],
                            rnd.success, rnd.r1, rnd.r2)
         IN [L |-> [st.L EXCEPT !.actors_byid[target_id] = res[2]],
             actor |-> res[1], stop |-> TRUE, target |-> Some(target_id)]

\* the actions of Location::act that do not move the actor
ActInPlace(st, action, rnd) ==
    CASE action.kind = "Pick" ->
            LET got == PickItem(st.L, ActorHead(st.actor))
            IN [st EXCEPT !.L = got[1],
                          !.actor = IF got[2] = None THEN @ ELSE AddItem(@, got[2][1])]
      [] action.kind = "Equip" ->
            [st EXCEPT !.actor = EquipSwitch(@, action.arg, rnd.used)]
      [] OTHER -> st

\* one candidate position of act, with a door that stays shut when walked into
ActStepDoorStaysShut(st, id, action, new_pos, rnd) ==
    LET old_pos == st.actor.pos
    IN IF old_pos = new_pos
       THEN ActInPlace(st, action, rnd)
       ELSE IF /\ CouldBeAttack(action)
               /\ old_pos.coord # new_pos.coord
               /\ new_pos.coord \in DOMAIN st.L.actors_coord_to_id
       THEN ActAttack(st, action, new_pos, rnd)
       ELSE IF TileAt(st.L.map, new_pos.coord).feature = "DoorClosed"
       THEN [st EXCEPT !.stop = TRUE]
       ELSE IF old_pos.coord = new_pos.coord /\ old_pos.dir # new_pos.dir
       THEN [st EXCEPT !.actor = Moved(@, st.L.map, new_pos)]
       ELSE IF /\ old_pos.coord # new_pos.coord
               /\ IsPassable(st.L, new_pos.coord)
               /\ new_pos.coord \notin DOMAIN st.L.actors_coord_to_id
       THEN [st EXCEPT !.actor = Moved(@, st.L.map, new_pos),
                       !.L.actors_coord_to_id = MapInsert(@, new_pos.coord, id)]
       ELSE st

\* one candidate position of act, going on to the next one after a door
ActStepDoorNoBreak(st, id, action, new_pos, rnd) ==
    LET old_pos == st.actor.pos
    IN IF old_pos = new_pos
       THEN ActInPlace(st, action, rnd)
       ELSE IF /\ CouldBeAttack(action)
               /\ old_pos.coord # new_pos.coord
               /\ new_pos.coord \in DOMAIN st.L.actors_coord_to_id
       THEN ActAttack(st, action, new_pos, rnd)
       ELSE IF TileAt(st.L.map, new_pos.coord).feature = "DoorClosed"
       THEN [st EXCEPT !.L.map[new_pos.coord] = TileAddFeature(@, "DoorOpen")]
       ELSE IF old_pos.coord = new_pos.coord /\ old_pos.dir # new_pos.dir
       THEN [st EXCEPT !.actor = Moved(@, st.L.map, new_pos)]
       ELSE IF /\ old_pos.coord # new_pos.coord
               /\ IsPassable(st.L, new_pos.coord)
               /\ new_pos.coord \notin DOMAIN st.L.actors_coord_to_id
       THEN [st EXCEPT !.actor = Moved(@, st.L.map, new_pos),
                       !.L.actors_coord_to_id = MapInsert(@, new_pos.coord, id)]
       ELSE st

\* one candidate position of act, with a move that nothing blocks
ActStepThroughWalls(st, id, action, new_pos, rnd) ==
    LET old_pos == st.actor.pos
    IN IF old_pos = new_pos
       THEN ActInPlace(st, action, rnd)
       ELSE IF /\ CouldBeAttack(action)
               /\ old_pos.coord # new_pos.coord
               /\ new_pos.coord \in DOMAIN st.L.actors_coord_to_id
       THEN ActAttack(st, action, new_pos, rnd)
       ELSE IF TileAt(st.L.map, new_pos.coord).feature = "DoorClosed"
       THEN [st EXCEPT !.L.map[new_pos.coord] = TileAddFeature(@, "DoorOpen"),
                       !.stop = TRUE]
       ELSE IF old_pos.coord = new_pos.coord /\ old_pos.dir # new_pos.dir
       THEN [st EXCEPT !.actor = Moved(@, st.L.map, new_pos)]
       ELSE IF old_pos.coord # new_pos.coord
       THEN [st EXCEPT !.actor = Moved(@, st.L.map, new_pos),
                       !.L.actors_coord_to_id = MapInsert(@, new_pos.coord, id)]
       ELSE st

\* one round of the loop of Location::act over the candidate positions; st
\* holds the location (the acting actor taken out of actors_byid), the actor
\* and whether the loop was left by a break
ActStep(st, id, action, new_pos, rnd) ==
    LET old_pos == st.actor.pos
    IN IF old_pos = new_pos
       THEN ActInPlace(st, action, rnd)
       ELSE IF /\ CouldBeAttack(action)
               /\ old_pos.coord # new_pos.coord
               /\ new_pos.coord \in DOMAIN st.L.actors_coord_to_id
       THEN ActAttack(st, action, new_pos, rnd)
       ELSE IF TileAt(st.L.map, new_pos.coord).feature = "DoorClosed"
       THEN [st EXCEPT !.L.map[new_pos.coord] = TileAddFeature(@, "DoorOpen"),
                       !.stop = TRUE]
       ELSE IF old_pos.coord = new_pos.coord /\ old_pos.dir # new_pos.dir
       THEN [st EXCEPT !.actor = Moved(@, st.L.map, new_pos)]
       ELSE IF /\ old_pos.coord # new_pos.coord
               /\ IsPassable(st.L, new_pos.coord)
               /\ new_pos.coord \notin DOMAIN st.L.actors_coord_to_id
       THEN [st EXCEPT !.actor = Moved(@, st.L.map, new_pos),
                       !.L.actors_coord_to_id = MapInsert(@, new_pos.coord, id)]
       ELSE st

\* the loop of Location::act
ActLoop(st, id, action, cands, rnd) ==
    LET st1 == ActStep(st, id, action, cands[1], rnd)
    IN IF Len(cands) > 1 /\ ~st1.stop
       THEN ActStep(st1, id, action, cands[2], rnd)
       ELSE st1

\* Location::act up to the end of its loop, for an actor that can act: the
\* location without the acting actor, the actor, and the actor attacked
ActResolve(L, id, action, rnd) ==
    LET L1 == PreAnyTick(L)
        a1 == PreOwnTick(L1.actors_byid[id])
    IN ActLoop([L |-> [L1 EXCEPT !.actors_byid = MapRemove(@, id)],
                actor |-> a1, stop |-> FALSE, target |-> None],
               id, action, PosAfterAction(a1, action), rnd)

\* act whose early return does not put the actor back
ActKeepsTheIdle(L, id, action, rnd) ==
    IF ~CanPerformAction(PreAnyTick(L).actors_byid[id])
    THEN [PreAnyTick(L) EXCEPT !.actors_byid = MapRemove(@, id)]
    ELSE LET st == ActResolve(L, id, action, rnd)
             a2 == PostOwnTick(st.actor, st.L.map, st.L.light_map)
         IN PostAnyTick([st.L EXCEPT !.actors_byid =
                            MapInsert(@, id, PostAction(a2, action))])

\* act that panics for a dead actor as well
ActPanicsOnDead(L, id) ==
    \/ id \notin DOMAIN L.actors_byid
    \/ IsDead(L.actors_byid[id])

\* Location::act: actors_byid.remove(&id).unwrap() panics
ActPanics(L, id) == id \notin DOMAIN L.actors_byid

\* Location::act, for an id of actors_byid
Act(L, id, action, rnd) ==
    IF ~CanPerformAction(PreAnyTick(L).actors_byid[id])
    THEN PreAnyTick(L)
    ELSE LET st == ActResolve(L, id, action, rnd)
             a2 == PostOwnTick(st.actor, st.L.map, st.L.light_map)
         IN PostAnyTick([st.L EXCEPT !.actors_byid =
                            MapInsert(@, id, PostAction(a2, action))])

-----------------------------------------------------------------------------
(* controller::Controller *)

\* the actors of the State the Controller is given, with their behavior
CtlActors ==
    << [id |-> 0, behavior |-> "Player"], [id |-> 1, behavior |-> "Grue"],
       [id |-> 2, behavior |-> "Pony"] >>

\* the State as the Controller sees it: its actors, its turn, and the
\* decisions applied to it since the last tick
World(actors, turn, acted) == [actors |-> actors, turn |-> turn, acted |-> acted]
\* State::act(&astate, action): the State with the decision applied
WorldAct(w, astate, action) == [w EXCEPT !.acted = Append(@, <<astate.id, action>>)]
\* State::tick
WorldTick(w) == [w EXCEPT !.turn = @ + 1, !.acted = <<>>]

\* Controller::new, at the top of the loop of run with state.actors cloned,
\* the channels empty and both providers at the other ends; result is what
\* run has returned
ControllerNew(state) ==
    [state |-> state, actors |-> state.actors, pc |-> "send", i |-> 1,
     collected |-> 0,
     pl_req |-> <<>>, pl_rep |-> <<>>, ai_req |-> <<>>, ai_rep |-> <<>>,
     gone |-> {}, result |-> None]

\* the decisions a provider replies with
Decisions == {Wait, Move("Forward")}

ControllerIdle == UNCHANGED ctl

\* what the Controller and the providers leave alone
LocationIdle ==
    UNCHANGED <<actors_byid, actors_coord_to_id, actors_dead, actors_counter,
                map, items, light_map, player_id, ids_to_move, op, round, steps>>

\* the provider an actor's requests go to
ProviderOf(actor) == IF actor.behavior = "Player" THEN "pl" ELSE "ai"

\* mpsc::Sender::send fails when the receiver is gone
SendFails(c, actor) == ProviderOf(actor) \in c.gone

\* mpsc::Receiver::recv fails when the channel is empty and its sender gone
RecvFails(c, actor) ==
    /\ ProviderOf(actor) \in c.gone
    /\ (IF ProviderOf(actor) = "pl" THEN c.pl_rep ELSE c.ai_rep) = <<>>

\* try!: run returns Err(Error::from_error(err))
CtlErr(c, cause) == [c EXCEPT !.pc = "err", !.result = Some(cause)]

\* a second loop that goes on to the next actor when recv fails
CtlRecvActSkips ==
    /\ ctl.pc = "recv"
    /\ LET actor == ctl.actors[ctl.i]
           player == actor.behavior = "Player"
           rep == IF player THEN ctl.pl_rep ELSE ctl.ai_rep
           last == ctl.i = Len(ctl.actors)
       IN IF RecvFails(ctl, actor)
          THEN ctl' = [ctl EXCEPT !.i = IF last THEN 1 ELSE @ + 1,
                                  !.pc = IF last THEN "tick" ELSE @]
          ELSE /\ rep # <<>>
               /\ ctl' = [ctl EXCEPT !.pl_rep = IF player THEN Tail(@) ELSE @,
                                     !.ai_rep = IF player THEN @ ELSE Tail(@),
                                     !.state = WorldAct(@, rep[1][1], rep[1][2]),
                                     !.collected = @ + 1,
                                     !.i = IF last THEN 1 ELSE @ + 1,
                                     !.pc = IF last THEN "tick" ELSE @]
    /\ LocationIdle

\* a second loop that awaits every reply on the channel of the player
CtlRecvActOneChannel ==
    /\ ctl.pc = "recv"
    /\ LET actor == ctl.actors[ctl.i]
           rep == ctl.pl_rep
           last == ctl.i = Len(ctl.actors)
       IN IF "pl" \in ctl.gone /\ ctl.pl_rep = <<>>
          THEN ctl' = CtlErr(ctl, "Receive")
          ELSE /\ rep # <<>>
               /\ ctl' = [ctl EXCEPT !.pl_rep = Tail(@),
                                     !.state = WorldAct(@, rep[1][1], rep[1][2]),
                                     !.collected = @ + 1,
                                     !.i = IF last THEN 1 ELSE @ + 1,
                                     !.pc = IF last THEN "tick" ELSE @]
    /\ LocationIdle

\* Controller::run, first loop: one request sent
CtlSend ==
    /\ ctl.pc = "send"
    /\ LET actor == ctl.actors[ctl.i]
           req == <<actor, ctl.state>>
           last == ctl.i = Len(ctl.actors)
           sent == IF actor.behavior = "Player"
                   THEN [ctl EXCEPT !.pl_req = Append(@, req)]
                   ELSE [ctl EXCEPT !.ai_req = Append(@, req)]
       IN IF SendFails(ctl, actor)
          THEN ctl' = CtlErr(ctl, "Transmit")
          ELSE ctl' = [sent EXCEPT !.i = IF last THEN 1 ELSE @ + 1,
                                   !.pc = IF last THEN "recv" ELSE @]
    /\ LocationIdle

\* Controller::run, second loop: one reply received and its decision applied
CtlRecvAct ==
    /\ ctl.pc = "recv"
    /\ LET actor == ctl.actors[ctl.i]
           player == actor.behavior = "Player"
           rep == IF player THEN ctl.pl_rep ELSE ctl.ai_rep
           last == ctl.i = Len(ctl.actors)
       IN IF RecvFails(ctl, actor)
          THEN ctl' = CtlErr(ctl, "Receive")
          ELSE /\ rep # <<>>
               /\ ctl' = [ctl EXCEPT !.pl_rep = IF player THEN Tail(@) ELSE @,
                                     !.ai_rep = IF player THEN @ ELSE Tail(@),
                                     !.state = WorldAct(@, rep[1][1], rep[1][2]),
                                     !.collected = @ + 1,
                                     !.i = IF last THEN 1 ELSE @ + 1,
                                     !.pc = IF last THEN "tick" ELSE @]
    /\ LocationIdle

\* Controller::run: the tick at the end of the loop, and the actors cloned
\* at the top of the next round
CtlTick ==
    /\ ctl.pc = "tick"
    /\ ctl.state.turn < MaxTicks
    /\ ctl' = [ctl EXCEPT !.state = WorldTick(@),
                          !.actors = ctl.state.actors,
                          !.collected = 0,
                          !.pc = "send"]
    /\ LocationIdle

\* the provider of the player: takes a request, replies with a decision
PlayerDecide(action) ==
    /\ "pl" \notin ctl.gone
    /\ ctl.pl_req # <<>>
    /\ ctl' = [ctl EXCEPT !.pl_req = Tail(@),
                          !.pl_rep = Append(@, <<ctl.pl_req[1][1], action>>)]
    /\ LocationIdle

\* the provider of the other actors
AiDecide(action) ==
    /\ "ai" \notin ctl.gone
    /\ ctl.ai_req # <<>>
    /\ ctl' = [ctl EXCEPT !.ai_req = Tail(@),
                          !.ai_rep = Append(@, <<ctl.ai_req[1][1], action>>)]
    /\ LocationIdle

\* a provider ends and drops its ends of the two channels
HangUp(provider) ==
    /\ provider \notin ctl.gone
    /\ ctl.pc # "err"
    /\ ctl' = [ctl EXCEPT !.gone = @ \cup {provider}]
    /\ LocationIdle

-----------------------------------------------------------------------------
(* The generated level and the start of the game *)

\* the tiles the generator returns; every other coordinate is a wall
FloorTiles ==
    ( <<0, 0>>  :> Tile("Empty", "None", 0, None) ) @@
    ( <<1, 0>>  :> Tile("Empty", "None", 0, None) ) @@
    ( <<0, 1>>  :> Tile("Empty", "None", 2, None) ) @@
    ( <<1, -1>> :> Tile("Empty", "None", 0, None) ) @@
    ( <<2, 0>>  :> Tile("Empty", "DoorClosed", 0, None) ) @@
    ( <<3, 0>>  :> Tile("Empty", "None", 0, Some(<<3, 0>>)) ) @@
    ( <<3, -1>> :> Tile("Empty", "None", 0, Some(<<3, 0>>)) )

GenMap == [c \in Region |-> IF c \in DOMAIN FloorTiles THEN FloorTiles[c] ELSE WallTile]

\* the items the generator returns
GenItems == ( <<0, 1>> :> Armor ) @@ ( <<1, -1>> :> Sword )

\* the actors the generator returns, as <<coordinate, actor>>: a rat next to
\* the start of the player and, in the larger levels, one behind the door
GenActors(rat_dir, rats) ==
    SubSeq(<< <<(<<1, 0>>), ActorNew("Rat", Pos(<<1, 0>>, rat_dir))>>,
              <<(<<3, 0>>), ActorNew("Rat", Pos(<<3, 0>>, 4))>> >>, 1, rats)

\* Location::new
LocationNew(gen_map, gen_actors, gen_items) ==
    [actors_byid |-> [i \in 0..(Len(gen_actors) - 1) |-> gen_actors[i + 1][2]],
     actors_coord_to_id |->
        [c \in {gen_actors[i][1] : i \in 1..Len(gen_actors)} |->
            (CHOOSE i \in 1..Len(gen_actors) : gen_actors[i][1] = c) - 1],
     actors_counter |-> Len(gen_actors),
     actors_dead |-> {},
     items |-> gen_items,
     map |-> gen_map,
     light_map |-> [c \in Region |-> 0],
     player_id |-> None]

\* Engine::new and Engine::spawn: the generated location with the player in it
EngineStart(rat_dir, rats) ==
    SpawnPlayer(LocationNew(GenMap, GenActors(rat_dir, rats), GenItems),
                SetPlayer(ActorNew("Human", Pos(<<0, 0>>, 1))))

\* the operation a state results from: its name, the actor it was applied
\* to, and whether it recomputed that actor's perception
Op(name, id, recomputed) == [name |-> name, id |-> id, recomputed |-> recomputed]

\* the record of a call act(id, action)
ActDone(id, action, recomputed) ==
    [name |-> "act", id |-> id, recomputed |-> recomputed, action |-> action]

\* the record of a call that panicked: the run ends there
Abort(call, id) == [name |-> "abort", id |-> id, recomputed |-> FALSE, call |-> call]

\* the variables take the fields of a Location
SetLoc(L) ==
    /\ actors_byid' = L.actors_byid
    /\ actors_coord_to_id' = L.actors_coord_to_id
    /\ actors_dead' = L.actors_dead
    /\ actors_counter' = L.actors_counter
    /\ map' = L.map
    /\ items' = L.items
    /\ light_map' = L.light_map
    /\ player_id' = L.player_id

-----------------------------------------------------------------------------
(* The operations on the Location *)

\* the actions given to Location::act
ActionSet ==
    {Wait, Pick, Charge, Turn("Left"), Move("Forward"), Move("Back"),
     Spin("Right"), Equip("a")}

\* the actors given to Location::spawn
SpawnSet == {ActorNew("Rat", Pos(<<3, 0>>, 4))}

NoRolls == Rolls(FALSE, 0, 0, FALSE)

\* the outcomes the random rolls of act(id, action) can have: the hit roll and
\* the two armour samples in 0..ac of the target, drawn when it attacks
RollsFor(L, id, action) ==
    IF CanPerformAction(L.actors_byid[id])
    THEN LET target == ActResolve(L, id, action, NoRolls).target
         IN IF target = None THEN {NoRolls}
            ELSE {Rolls(success, r1, r2, FALSE) :
                    success \in BOOLEAN,
                    r1 \in 0..L.actors_byid[target[1]].stats.base.ac,
                    r2 \in 0..L.actors_byid[target[1]].stats.base.ac}
    ELSE {NoRolls}

\* whether act(id, action) recomputes the perception of the acting actor
ActRecomputes(L, id, action) ==
    /\ CanPerformAction(L.actors_byid[id])
    /\ LET a == ActResolve(L, id, action, NoRolls).actor
       IN a.pre_pos # Some(a.pos)

\* the entry of a script that stands for skip_act(id)
Skipped == Action("Skip", "")

\* the game as played so far: the calls of a script applied in order
RECURSIVE Played(_, _)
Played(L, script) ==
    IF script = <<>> THEN L
    ELSE Played(IF script[1][2] = Skipped
                THEN SkipAct(L, script[1][1])
                ELSE Act(L, script[1][1], script[1][2], NoRolls), Tail(script))

\* an opening of the game: the rat picks up the sword in front of it and
\* takes it in its hand
Opening == << <<0, Pick>>, <<0, Equip("a")>> >>

\* the opening, and the rat's own ticks until its cooldown is over
Rested == Opening \o << <<0, Skipped>>, <<0, Skipped>> >>

\* another opening: the rat steps aside and the player walks up to the door
Approach == << <<0, Move("Forward")>>, <<1, Move("Forward")>> >>

\* the states a behaviour starts in: the direction of the generated rat and
\* the actions already played
Starts ==
    {<<3, <<>>>>, <<3, SubSeq(Opening, 1, 1)>>, <<3, Opening>>, <<4, <<>>>>,
     <<1, <<>>>>, <<3, Approach>>, <<3, Rested>>}

\* the operation the start state results from, L being the generated location
StartOp(L, script) ==
    IF script = <<>> THEN Op("spawn", L.player_id[1], TRUE)
    ELSE LET n == Len(script)
             before == Played(L, SubSeq(script, 1, n - 1))
         IN IF script[n][2] = Skipped
            THEN Op("skip_act", script[n][1], FALSE)
            ELSE ActDone(script[n][1], script[n][2],
                         ActRecomputes(before, script[n][1], script[n][2]))

InitWith(L, first_op) ==
    /\ actors_byid = L.actors_byid
    /\ actors_coord_to_id = L.actors_coord_to_id
    /\ actors_dead = L.actors_dead
    /\ actors_counter = L.actors_counter
    /\ map = L.map
    /\ items = L.items
    /\ light_map = L.light_map
    /\ player_id = L.player_id
    /\ ids_to_move = <<>>
    /\ op = first_op
    /\ round = [order |-> <<>>, done |-> <<>>, alive |-> {}]
    /\ ctl = ControllerNew(World(CtlActors, 0, <<>>))
    /\ steps = 0

Init ==
    \E st \in Starts :
        LET L == EngineStart(st[1], 1)
        IN InitWith(Played(L, st[2]), StartOp(L, st[2]))

EngineIdle == UNCHANGED <<ids_to_move, round>> /\ ControllerIdle

\* a call has panicked
Aborted == op.name = "abort"

\* a spawn that panics after pre_any_tick
SpawnAbortAfterPreTick(L) == PreAnyTick(L)

\* the location a panicking spawn leaves behind
SpawnAbortState(L) == L

\* the location a panicking act leaves behind
ActAbortState(L) == PreAnyTick(L)

\* Location::act(id, action)
ActOp(id, action) ==
    /\ steps < MaxSteps
    /\ ~Aborted
    /\ IF ActPanics(Loc, id)
       THEN /\ SetLoc(ActAbortState(Loc))
            /\ op' = Abort("act", id)
       ELSE /\ \E rnd \in RollsFor(Loc, id, action) : SetLoc(Act(Loc, id, action, rnd))
            /\ op' = ActDone(id, action, ActRecomputes(Loc, id, action))
    /\ steps' = steps + 1
    /\ EngineIdle

\* Location::skip_act(id)
SkipActOp(id) ==
    /\ steps < MaxSteps
    /\ ~Aborted
    /\ id \in DOMAIN actors_byid
    /\ SetLoc(SkipAct(Loc, id))
    /\ op' = Op("skip_act", id,
                LET a == PreAnyTick(Loc).actors_byid[id] IN a.pre_pos # Some(a.pos))
    /\ steps' = steps + 1
    /\ EngineIdle

\* Location::spawn(astate)
SpawnOp(astate) ==
    /\ steps < MaxSteps
    /\ ~Aborted
    /\ IF SpawnPanics(Loc, astate)
       THEN /\ SetLoc(SpawnAbortState(Loc))
            /\ op' = Abort("spawn", actors_counter)
       ELSE /\ actors_counter < MaxActors
            /\ SetLoc(Spawn(Loc, astate))
            /\ op' = Op("spawn", actors_counter, TRUE)
    /\ steps' = steps + 1
    /\ EngineIdle

\* Actor::changed_level, on the player
ChangedLevelOp(id) ==
    /\ steps < MaxSteps
    /\ ~Aborted
    /\ player_id = Some(id)
    /\ actors_byid' = [actors_byid EXCEPT ![id] = ActorChangedLevel(@)]
    /\ op' = Op("changed_level", id, FALSE)
    /\ steps' = steps + 1
    /\ UNCHANGED <<actors_coord_to_id, actors_dead, actors_counter, map, items,
                   light_map, player_id>>
    /\ EngineIdle

\* Location::recalculate_light_map and Location::recalculate_noise, called
\* once more on the world as it is
RecalculateOp ==
    /\ steps < MaxSteps
    /\ ~Aborted
    /\ SetLoc(RecalculateNoise(RecalculateLightMap(Loc)))
    /\ op' = Op("recalculate", -1, FALSE)
    /\ steps' = steps + 1
    /\ EngineIdle

Next ==
    \/ \E id \in 0..(MaxActors - 1), action \in ActionSet : ActOp(id, action)
    \/ \E id \in 0..(MaxActors - 1) : SkipActOp(id)
    \/ \E astate \in SpawnSet : SpawnOp(astate)
    \/ \E id \in 0..(MaxActors - 1) : ChangedLevelOp(id)
    \/ RecalculateOp

Spec == Init /\ [][Next]_vars

-----------------------------------------------------------------------------
(* engine::Engine *)

\* the orders in which a Vec can hold the elements of a set
Orders(S) ==
    {o \in [1..Cardinality(S) -> S] : \A i, j \in 1..Cardinality(S) : o[i] = o[j] => i = j}

\* Engine::needs_player_input
NeedsPlayerInput == ids_to_move = <<>>

\* player_act without the filter on the id of the player
IdsToMoveAll(L) == ActorsAliveIds(L)

\* the ids Engine::player_act collects after the action of the player
IdsToMove(L) == ActorsAliveIds(L) \ {L.player_id[1]}

\* Engine::player_act(action); `round` records the order the round starts
\* with and the actors alive at that moment
PlayerActOp(action) ==
    /\ steps < MaxEngineSteps
    /\ NeedsPlayerInput
    /\ \E rnd \in RollsFor(Loc, player_id[1], action) :
          LET L == Act(Loc, player_id[1], action, rnd)
          IN /\ SetLoc(L)
             /\ \E order \in Orders(IdsToMove(L)) :
                   /\ ids_to_move' = order
                   /\ round' = [order |-> order, done |-> <<>>,
                                alive |-> ActorsAliveIds(L)]
    /\ op' = Op("player_act", player_id[1], ActRecomputes(Loc, player_id[1], action))
    /\ ControllerIdle
    /\ steps' = steps + 1

\* the id Engine::one_actor_act pops
PoppedId == ids_to_move[Len(ids_to_move)]
\* the ids Engine::one_actor_act leaves
AfterPop == SubSeq(ids_to_move, 1, Len(ids_to_move) - 1)

\* Engine::one_actor_act; the action is the one ai::Simple chooses
OneActorActOp(action) ==
    /\ steps < MaxEngineSteps
    /\ ~NeedsPlayerInput
    /\ PoppedId # player_id[1]
    /\ \E rnd \in RollsFor(Loc, PoppedId, action) :
          SetLoc(Act(Loc, PoppedId, action, rnd))
    /\ ids_to_move' = AfterPop
    /\ round' = [round EXCEPT !.done = Append(@, PoppedId)]
    /\ op' = Op("one_actor_act", PoppedId, ActRecomputes(Loc, PoppedId, action))
    /\ ControllerIdle
    /\ steps' = steps + 1

\* the game starts on a level with two generated rats
EngineInit ==
    \E rat_dir \in {3, 4} :
        LET L == EngineStart(rat_dir, 2)
        IN InitWith(L, Op("spawn", L.player_id[1], TRUE))

\* the actions ai::roam chooses from
AiActionSet == {Turn("Right"), Turn("Left"), Move("Forward"), Wait}

EngineNext ==
    \/ \E action \in ActionSet : PlayerActOp(action)
    \/ \E action \in AiActionSet : OneActorActOp(action)

SpecEngine == EngineInit /\ [][EngineNext]_vars

\* the Controller running with its two providers
ControllerInit ==
    LET L == EngineStart(3, 1)
    IN InitWith(L, Op("spawn", L.player_id[1], TRUE))

ControllerNext ==
    \/ CtlSend
    \/ CtlRecvAct
    \/ CtlTick
    \/ \E action \in Decisions : PlayerDecide(action)
    \/ \E action \in Decisions : AiDecide(action)
    \/ \E provider \in {"pl", "ai"} : HangUp(provider)

SpecController == ControllerInit /\ [][ControllerNext]_vars

\* the Controller with two providers that stay: each is a thread of its own
\* that takes a request whenever one is there, and run goes on whenever the
\* reply it waits for is there
AnsweredNext ==
    \/ CtlSend
    \/ CtlRecvAct
    \/ CtlTick
    \/ \E action \in Decisions : PlayerDecide(action)
    \/ \E action \in Decisions : AiDecide(action)

SpecAnswered ==
    /\ ControllerInit
    /\ [][AnsweredNext]_vars
    /\ WF_vars(CtlSend)
    /\ WF_vars(CtlRecvAct)
    /\ WF_vars(CtlTick)
    /\ WF_vars(\E action \in Decisions : PlayerDecide(action))
    /\ WF_vars(\E action \in Decisions : AiDecide(action))

-----------------------------------------------------------------------------
(* Properties: the coordinate index, the dead, the round of the Engine *)

Living == {id \in DOMAIN actors_byid : actors_byid[id].hp > 0}
SeqRange(s) == {s[i] : i \in 1..Len(s)}
NoDup(s) == \A i, j \in 1..Len(s) : s[i] = s[j] => i = j
Reverse(s) == [i \in 1..Len(s) |-> s[Len(s) + 1 - i]]

\* C1: after every completed operation each living actor is indexed under
\* its coordinate, no two living actors share a coordinate, and the index
\* holds nothing but the current coordinates of living actors.
C1_IndexOfLiving ==
    /\ \A id \in Living :
          /\ actors_byid[id].pos.coord \in DOMAIN actors_coord_to_id
          /\ actors_coord_to_id[actors_byid[id].pos.coord] = id
    /\ \A i, j \in Living :
          actors_byid[i].pos.coord = actors_byid[j].pos.coord => i = j
    /\ \A c \in DOMAIN actors_coord_to_id :
          /\ actors_coord_to_id[c] \in Living
          /\ actors_byid[actors_coord_to_id[c]].pos.coord = c

\* an actor has just moved to another coordinate: the index has it under the
\* new coordinate and has no entry for the one it left
C1_Moved ==
    \E id \in Living :
        /\ op.name = "act" /\ op.id = id
        /\ actors_byid[id].pre_pos # None
        /\ actors_byid[id].pre_pos[1].coord # actors_byid[id].pos.coord
        /\ actors_coord_to_id[actors_byid[id].pos.coord] = id
        /\ actors_byid[id].pre_pos[1].coord \notin DOMAIN actors_coord_to_id

\* C2: act(id, action) on a living actor whose action_cd is above 0 changes
\* nothing: all actors, the map, the floor items, the light map and both
\* indices are as before the call.
C2_CooldownActChangesNothing ==
    [][(/\ op'.name = "act"
        /\ op'.id \in Living
        /\ actors_byid[op'.id].action_cd > 0)
       => UNCHANGED <<actors_byid, actors_coord_to_id, actors_dead,
                      actors_counter, map, items, light_map, player_id>>]_vars

\* C3: the player's id is never pending; the pending ids of a round are the
\* non-player actors alive right after the player's action, each once, in an
\* order fixed at that moment; they act one by one from the end of that
\* order, and the player acts only when nobody is pending.
C3_Pending ==
    /\ player_id[1] \notin SeqRange(ids_to_move)
    /\ NoDup(round.order)
    /\ SeqRange(round.order) = round.alive \ {player_id[1]}
    /\ round.order = ids_to_move \o Reverse(round.done)
C3_Turn ==
    /\ op'.name = "player_act" =>
          /\ ids_to_move = <<>>
          /\ op'.id = player_id[1]
          /\ round'.alive = {id \in DOMAIN actors_byid' : actors_byid'[id].hp > 0}
          /\ ids_to_move' = round'.order
    /\ op'.name = "one_actor_act" =>
          /\ ids_to_move # <<>>
          /\ op'.id = ids_to_move[Len(ids_to_move)]
          /\ op'.id # player_id[1]
          /\ ids_to_move' = SubSeq(ids_to_move, 1, Len(ids_to_move) - 1)
          /\ round'.order = round.order
C3_RoundOrder == []C3_Pending /\ [][C3_Turn]_vars

\* a round of two pending actors has been played to its end
C3_RoundPlayed ==
    /\ op.name = "one_actor_act"
    /\ Len(round.order) = 2
    /\ ids_to_move = <<>>
    /\ round.done = Reverse(round.order)

\* C4: an actor's id is in actors_dead exactly when its hp is 0 or less.
C4_DeadIffNoHp ==
    \A id \in DOMAIN actors_byid : id \in actors_dead <=> actors_byid[id].hp <= 0

\* an attack has brought an actor to hp <= 0 and the id is recorded, next to
\* a living actor that is not
C4_Killed ==
    \E id \in actors_dead : \E other \in Living :
        /\ actors_byid[id].hp <= 0
        /\ actors_byid[id].was_attacked_by # <<>>
        /\ other \notin actors_dead

\* C5, as stated: once post_any_tick has run a dead actor is in neither the
\* actor table nor the coordinate index.
C5_DeadLeaveBothTables ==
    \A id \in actors_dead :
        /\ id \notin DOMAIN actors_byid
        /\ id \notin Range(actors_coord_to_id)

\* C5, amended: an actor with hp <= 0 is in actors_dead and out of the
\* coordinate index, with empty backpack and equipped tables, and stays so:
\* it never returns to the index and never leaves actors_dead; it is put back
\* into the actor table and stays addressable there by its id.
C5_DeadNow ==
    \A id \in DOMAIN actors_byid :
        actors_byid[id].hp <= 0 =>
            /\ id \in actors_dead
            /\ id \notin Range(actors_coord_to_id)
            /\ actors_byid[id].items_backpack = EmptyMap
            /\ actors_byid[id].items_equipped = EmptyMap
C5_DeadStay ==
    \A id \in actors_dead :
        /\ id \in actors_dead'
        /\ id \in DOMAIN actors_byid'
        /\ actors_byid'[id].hp <= 0
        /\ id \notin Range(actors_coord_to_id')
C5_DeadKeptInTable == []C5_DeadNow /\ [][C5_DeadStay]_vars

\* an operation has been applied to a dead actor by its id
C5_DeadAddressed ==
    \E id \in actors_dead :
        /\ op.id = id
        /\ op.name \in {"act", "skip_act"}
        /\ id \in DOMAIN actors_byid
        /\ id \notin Range(actors_coord_to_id)

-----------------------------------------------------------------------------
(* Properties: death and the items of the dead *)

\* the coordinates a walk from start over passable tiles comes to
RECURSIVE WalkFrom(_, _, _)
WalkFrom(mp, start, seen) ==
    LET next == UNION {Neighbors(c) :
                         c \in {x \in seen :
                                  x = start \/ TileIsPassable(TileAt(mp, x))}}
                    \ seen
    IN IF next = {} THEN seen ELSE WalkFrom(mp, start, seen \cup next)

\* the passable tiles reachable from start through passable tiles
ReachableFloor(mp, start) ==
    {c \in WalkFrom(mp, start, {start}) : TileIsPassable(TileAt(mp, c))}

\* the actor id had hp 1 and this step gave it a successful hit of damage 1
\* or more
HitAtOneHp(id) ==
    /\ actors_byid[id].hp = 1
    /\ id \in DOMAIN actors_byid'
    /\ actors_byid'[id].hp < 1
    /\ LET log == actors_byid'[id].was_attacked_by
       IN /\ log # <<>>
          /\ log[Len(log)].success
          /\ log[Len(log)].dmg >= 1

\* C6: an actor with hp 1 that receives a successful hit of damage >= 1 is in
\* actors_dead when the operation ends, its backpack and equipped tables are
\* empty, and each item it carried lies on a passable tile reachable from
\* its coordinate, unless no such tile without an item is left.
C6_Step ==
    \A id \in DOMAIN actors_byid :
        HitAtOneHp(id) =>
            LET a == actors_byid[id]
                floor == ReachableFloor(map', a.pos.coord)
                carried == CarriedItems(a)
            IN /\ id \in actors_dead'
               /\ actors_byid'[id].items_backpack = EmptyMap
               /\ actors_byid'[id].items_equipped = EmptyMap
               /\ \A i \in 1..Len(carried) :
                     \/ \E c \in floor :
                           c \in DOMAIN items' /\ items'[c] = carried[i]
                     \/ \A c \in floor : c \in DOMAIN items'
C6_KilledDropsItems == [][C6_Step]_vars

\* a killed actor that carried the sword: the sword lies where it died
C6_SwordOnFloor ==
    \E id \in actors_dead :
        /\ op.name = "act"
        /\ actors_byid[id].hp <= 0
        /\ \E i \in 1..Len(actors_byid[id].was_attacked_by) :
              actors_byid[id].was_attacked_by[i].success
        /\ actors_byid[id].pos.coord \notin DOMAIN GenItems
        /\ actors_byid[id].pos.coord \in DOMAIN items
        /\ items[actors_byid[id].pos.coord] = Sword

-----------------------------------------------------------------------------
(* Properties: memory of the map *)

\* C7: a step other than changed_level keeps every coordinate of known and
\* every area of known_areas of each actor; changed_level leaves both sets
\* of its actor empty.
C7_Step ==
    /\ op'.name # "changed_level" =>
          \A id \in DOMAIN actors_byid :
              /\ id \in DOMAIN actors_byid'
              /\ actors_byid[id].known \subseteq actors_byid'[id].known
              /\ actors_byid[id].known_areas \subseteq actors_byid'[id].known_areas
    /\ op'.name = "changed_level" =>
          /\ actors_byid'[op'.id].known = {}
          /\ actors_byid'[op'.id].known_areas = {}
C7_KnownGrows == [][C7_Step]_vars

\* the player has changed level and then looked around: all it knows it has
\* discovered in this tick
C7_KnownAgain ==
    /\ op.name = "act"
    /\ player_id = Some(op.id)
    /\ actors_byid[op.id].known # {}
    /\ actors_byid[op.id].known = actors_byid[op.id].discovered

VisibleIsKnown(a) == a.visible \subseteq a.known

\* C8: the recomputation of an actor's perception leaves its visible set
\* inside its known set, and no step other than changed_level takes a visible
\* set out of known.
C8_Step ==
    \A id \in DOMAIN actors_byid' :
        /\ (op'.recomputed /\ op'.id = id) => VisibleIsKnown(actors_byid'[id])
        /\ (/\ op'.name # "changed_level"
            /\ id \in DOMAIN actors_byid
            /\ VisibleIsKnown(actors_byid[id]))
           => VisibleIsKnown(actors_byid'[id])
C8_VisibleKnown == [][C8_Step]_vars

\* an actor has recomputed its perception in an act and sees coordinates it
\* did not know before
C8_SeenNew ==
    /\ op.name = "act"
    /\ op.recomputed
    /\ actors_byid[op.id].discovered # {}
    /\ actors_byid[op.id].discovered \cap actors_byid[op.id].visible # {}

-----------------------------------------------------------------------------
(* Properties: light and noise *)

\* C9: recalculate_light_map and recalculate_noise, run once more on the
\* world as it is, leave the light map and every heared map as they are.
C9_Step ==
    op'.name = "recalculate" =>
        /\ light_map' = light_map
        /\ DOMAIN actors_byid' = DOMAIN actors_byid
        /\ \A id \in DOMAIN actors_byid :
              actors_byid'[id].heared = actors_byid[id].heared
C9_RecalculateTwice == [][C9_Step]_vars

\* the second run came over a world with light and with noise that is heard
C9_RanTwice ==
    /\ op.name = "recalculate"
    /\ \E c \in Region : light_map[c] > 0
    /\ \E s, t \in Living :
          /\ s # t
          /\ actors_byid[s].noise_emision > 0
          /\ actors_byid[s].pos.coord \in DOMAIN actors_byid[t].heared

\* the living actors that emit noise
Emitting == {s \in Living : actors_byid[s].noise_emision > 0}
InEarshot(s, t) ==
    Distance(actors_byid[s].pos.coord, actors_byid[t].pos.coord)
        <= actors_byid[s].noise_emision

\* C10: a living actor within the emission of a living source has a heared
\* entry under the coordinate of the source, walls or not; an actor out of
\* the emission of every source has no heared entry.
C10_Heared ==
    /\ \A s \in Emitting : \A t \in Living :
          InEarshot(s, t) => actors_byid[s].pos.coord \in DOMAIN actors_byid[t].heared
    /\ \A t \in DOMAIN actors_byid :
          (\A s \in Emitting : ~InEarshot(s, t)) => actors_byid[t].heared = EmptyMap

\* a source of emission 2: the actor at distance 2, behind the door, hears
\* it and the actor at distance 3 does not
C10_TwoHearsThreeNot ==
    \E s \in Emitting : \E t, u \in Living :
        /\ actors_byid[s].noise_emision = 2
        /\ Distance(actors_byid[s].pos.coord, actors_byid[t].pos.coord) = 2
        /\ actors_byid[s].pos.coord \in DOMAIN actors_byid[t].heared
        /\ Distance(actors_byid[s].pos.coord, actors_byid[u].pos.coord) = 3
        /\ actors_byid[u].heared = EmptyMap

-----------------------------------------------------------------------------
(* Properties: who hears a noise *)

\* C11: an actor that emits noise has no heared entry under its own
\* coordinate.
C11_SourceHearsNotItself ==
    \A s \in Emitting :
        actors_byid[s].pos.coord \notin DOMAIN actors_byid[s].heared

-----------------------------------------------------------------------------
(* Actor::attacks on its own: an attacker next to a target, the attack made
   in the direction the attacker faces *)

\* the stamina the attacker is left with before the attack
AttackSp == 0..3

\* an actor of a race, with the sword in its hand or without
Fighter(race, pos, armed) ==
    LET a == RecalculateStats(ActorNew(race, pos))
    IN IF armed
       THEN RecalculateStats(EquipSwitch(AddItem(a, Sword), "a", FALSE))
       ELSE a

\* the attacker stands behind the coordinate of the target, seen in the
\* direction of the attack
AttackLocation(attacker, target) ==
    [actors_byid |-> (0 :> attacker) @@ (1 :> target),
     actors_coord_to_id |-> (attacker.pos.coord :> 0) @@ (target.pos.coord :> 1),
     actors_counter |-> 2,
     actors_dead |-> {},
     items |-> EmptyMap,
     map |-> GenMap,
     light_map |-> [c \in Region |-> 0],
     player_id |-> None]

AttackInit ==
    \E race, trace \in Races, armed \in BOOLEAN, sp \in AttackSp,
       dir, tdir \in Directions :
        LET target == Fighter(trace, Pos(<<1, 0>>, tdir), FALSE)
            a == Fighter(race, Pos(Step(<<1, 0>>, (dir + 3) % 6), dir), armed)
        IN InitWith(AttackLocation([a EXCEPT !.sp = sp, !.action_cd = 0], target),
                    Op("start", 0, FALSE))

\* Actor::attacks(dir, target) of actor 0 on actor 1; op records the
\* accuracy given to util::roll and the damage before the armour rolls
AttackOp(success, r1, r2) ==
    /\ op.name = "start"
    /\ LET a == actors_byid[0]
           t == actors_byid[1]
           res == Attacks(a, a.pos.dir, t, success, r1, r2)
       IN /\ r1 \in 0..t.stats.base.ac
          /\ r2 \in 0..t.stats.base.ac
          /\ actors_byid' = (0 :> res[1]) @@ (1 :> res[2])
          /\ op' = [name |-> "attacks", id |-> 0, recomputed |-> FALSE,
                    dir |-> a.pos.dir,
                    acc |-> AttackAcc(a, a.pos.dir, t),
                    raw |-> AttackDmg(a, a.pos.dir, t),
                    success |-> success, r1 |-> r1, r2 |-> r2]
    /\ steps' = steps + 1
    /\ UNCHANGED <<actors_coord_to_id, actors_dead, actors_counter, map, items,
                   light_map, player_id>>
    /\ EngineIdle

AttackNext == \E success \in BOOLEAN, r1, r2 \in 0..1 : AttackOp(success, r1, r2)

SpecAttack == AttackInit /\ [][AttackNext]_vars

-----------------------------------------------------------------------------
(* Location::recalculate_light_map on its own *)

\* the light a tile or an actor is given
LightLevels == 0..3

\* a location for recalculate_light_map: two tiles next to the start with
\* light, the door open or closed, the player with light_emision
LightLocation(l1, l2, open, emision) ==
    LET L == EngineStart(3, 1)
    IN [L EXCEPT !.map[<<0, 1>>].light = l1,
                 !.map[<<1, -1>>].light = l2,
                 !.map[<<2, 0>>] = IF open THEN TileAddFeature(@, "DoorOpen") ELSE @,
                 !.actors_byid[L.player_id[1]].light_emision = emision]

LightInit ==
    \E l1, l2 \in LightLevels, open \in BOOLEAN, emision \in 0..1 :
        InitWith(LightLocation(l1, l2, open, emision), Op("start", 0, FALSE))

\* Location::recalculate_light_map, the tiles in the order torder and the
\* actors in the order aorder
LightOp(torder, aorder) ==
    /\ op.name = "start"
    /\ light_map' = LightSwept(Loc, LightSwept(Loc, [c \in Region |-> 0], torder), aorder)
    /\ op' = Op("recalculate_light_map", -1, FALSE)
    /\ steps' = steps + 1
    /\ UNCHANGED <<actors_byid, actors_coord_to_id, actors_dead, actors_counter,
                   map, items, player_id>>
    /\ EngineIdle

LightNext ==
    \E torder \in Orders(LightTiles(Loc)), aorder \in Orders(LightActors(Loc)) :
        LightOp(torder, aorder)

SpecLight == LightInit /\ [][LightNext]_vars

-----------------------------------------------------------------------------
(* Perception of an actor put into an open area *)

\* an area without walls, doors, light and items
OpenMap == [c \in Region |-> Tile("Empty", "None", 0, None)]

\* the area with one tile of the given type and one tile with light, three
\* steps apart, and the light map of that
SightLocation(type, light) ==
    LET L == LocationNew([OpenMap EXCEPT ![<<3, 0>>].type = type,
                                         ![<<0, 0>>].light = light],
                         <<>>, EmptyMap)
    IN RecalculateLightMap(L)

\* the coordinates an actor is put on: all neighbours lie in the area
Interior == {c \in Region : Neighbors(c) \subseteq Region} \ {<<3, 0>>}

\* an actor that sees 5 tiles far, with or without infravision
Watcher(pos, infravision) ==
    [ActorNew("Human", pos) EXCEPT !.base_stats.vision = 5,
                                   !.base_stats.infravision = infravision]

SightInit ==
    \E c \in Interior, dir \in Directions, infravision \in 0..1,
       type \in {"Empty", "Wall", "Tree"}, light \in {0, 2} :
        InitWith(SightLocation(type, light),
                 [name |-> "start", id |-> 0, recomputed |-> FALSE,
                  astate |-> Watcher(Pos(c, dir), infravision)])

\* Location::spawn(astate), which recomputes the perception of the new actor
SightOp ==
    /\ op.name = "start"
    /\ SetLoc(Spawn(Loc, op.astate))
    /\ op' = Op("spawn", actors_counter, TRUE)
    /\ steps' = steps + 1
    /\ EngineIdle

SpecSight == SightInit /\ [][SightOp]_vars

-----------------------------------------------------------------------------
(* Items: an open area with the player among four items and a rat *)

\* four items, one on each of four tiles next to (1, 0)
StoreItems ==
    ( <<1, 1>> :> Sword ) @@ ( <<2, 0>> :> Armor ) @@ ( <<2, -1>> :> Helmet )
        @@ ( <<1, -1>> :> Boots )

\* the actor after add_item for each item of a sequence
RECURSIVE Carrying(_, _)
Carrying(a, its) ==
    IF its = <<>> THEN a ELSE Carrying(AddItem(a, its[1]), Tail(its))

\* the area with a rat at rat_coord and the player spawned at (1, 0); each of
\* them brings the items it has picked up before, the others lie on the floor;
\* `worn`: the player has put its first item on and its cooldown is over
StoreStart(player_items, worn, player_dir, rat_coord, rat_items) ==
    LET brought == {player_items[i] : i \in 1..Len(player_items)}
                   \cup {rat_items[i] : i \in 1..Len(rat_items)}
        floor == {c \in DOMAIN StoreItems : StoreItems[c] \notin brought}
    IN SpawnPlayer(
          LocationNew(OpenMap,
                      << <<rat_coord,
                           Carrying(ActorNew("Rat", Pos(rat_coord, 2)), rat_items)>> >>,
                      [c \in floor |-> StoreItems[c]]),
          LET p == Carrying(SetPlayer(ActorNew("Human", Pos(<<1, 0>>, player_dir))),
                            player_items)
          IN IF worn THEN [EquipSwitch(p, "a", FALSE) EXCEPT !.action_cd = 0]
             ELSE p)

\* the starts: nothing picked up yet; the player holds three items and faces
\* the fourth; the player has the sword in its hand; the rat holds the boots
\* and the player faces the rat; the player faces the rat from two steps away
StoreStarts ==
    {StoreStart(<<>>, FALSE, 0, <<0, 0>>, <<>>),
     StoreStart(<<Sword, Armor, Helmet>>, FALSE, 3, <<0, 0>>, <<>>),
     StoreStart(<<Sword>>, TRUE, 1, <<0, 0>>, <<>>),
     StoreStart(<<>>, FALSE, 4, <<0, 0>>, <<Boots>>),
     StoreStart(<<>>, FALSE, 4, <<-1, 0>>, <<>>)}

\* the rat waits until its stamina is full
RatRests == << <<0, Wait>>, <<0, Wait>> >>

StoreActionSet ==
    {Wait, Pick, Equip("a"), Equip("b"), Turn("Right"), Move("Forward"), Charge}

StoreInit ==
    \/ \E L \in StoreStarts : InitWith(L, Op("spawn", L.player_id[1], TRUE))
    \/ InitWith(Played(StoreStart(<<>>, FALSE, 0, <<0, 0>>, <<>>), RatRests),
                ActDone(0, Wait, FALSE))

StoreNext ==
    \/ \E id \in 0..1, action \in StoreActionSet : ActOp(id, action)
    \/ \E id \in 0..1 : SkipActOp(id)

SpecItems == StoreInit /\ [][StoreNext]_vars

-----------------------------------------------------------------------------
(* The ids of the actors: spawn, remove and act on the generated level; op
   keeps the ids that were stored at some time *)

\* the operation a state results from, and the ids stored until then
IdsDone(name, id, L) ==
    /\ SetLoc(L)
    /\ op' = [name |-> name, id |-> id, recomputed |-> FALSE,
              seen |-> op.seen \cup DOMAIN L.actors_byid]
    /\ steps' = steps + 1
    /\ EngineIdle

IdsInit ==
    \E rat_dir \in Directions :
        LET L == EngineStart(rat_dir, 1)
        IN InitWith(L, [name |-> "spawn", id |-> L.player_id[1], recomputed |-> TRUE,
                        seen |-> DOMAIN L.actors_byid])

\* the actors given to spawn: a rat for a tile of the level
IdsSpawnSet == {ActorNew("Rat", Pos(c, 4)) : c \in {<<3, 0>>, <<3, -1>>, <<0, 1>>}}

\* Location::spawn(astate) on a coordinate that is not in the index
IdsSpawnOp(astate) ==
    /\ steps < MaxSteps
    /\ actors_counter < MaxActors
    /\ ~SpawnPanics(Loc, astate)
    /\ IdsDone("spawn", actors_counter, Spawn(Loc, astate))

\* Location::remove(id)
IdsRemoveOp(id) ==
    /\ steps < MaxSteps
    /\ IdsDone("remove", id, Remove(Loc, id))

\* Location::act(id, action) for an id that is stored
IdsActOp(id, action) ==
    /\ steps < MaxSteps
    /\ ~ActPanics(Loc, id)
    /\ \E rnd \in RollsFor(Loc, id, action) : IdsDone("act", id, Act(Loc, id, action, rnd))

IdsNext ==
    \/ \E astate \in IdsSpawnSet : IdsSpawnOp(astate)
    \/ \E id \in 0..(MaxActors - 1) : IdsRemoveOp(id)
    \/ \E id \in 0..(MaxActors - 1), action \in {Move("Forward"), Wait} : IdsActOp(id, action)

SpecIds == IdsInit /\ [][IdsNext]_vars

-----------------------------------------------------------------------------
(* The inventory of one actor: equip_switch and unequip_slot called on it;
   op keeps the actor as it was before the call *)

\* what the actor has picked up, in order
EquipCarried ==
    {<<Sword, Dagger, Armor>>, <<Dagger, Sword>>, <<Helmet, Sword>>, <<Armor>>}

EquipInit ==
    \E its \in EquipCarried :
        LET a == Carrying(RecalculateStats(ActorNew("Human", Pos(<<0, 0>>, 1))), its)
        IN InitWith(LocationNew(OpenMap, << <<(<<0, 0>>), a>> >>, EmptyMap),
                    [name |-> "start", id |-> 0, recomputed |-> FALSE,
                     arg |-> "", before |-> a])

EquipDone(name, arg, a) ==
    /\ steps < MaxEquips
    /\ actors_byid' = [actors_byid EXCEPT ![0] = a]
    /\ op' = [name |-> name, id |-> 0, recomputed |-> FALSE,
              arg |-> arg, before |-> actors_byid[0]]
    /\ steps' = steps + 1
    /\ UNCHANGED <<actors_coord_to_id, actors_dead, actors_counter, map, items,
                   light_map, player_id>>
    /\ EngineIdle

\* Actor::equip_switch(ch), with Actor::equip and Actor::unequip
EquipSwitchOp(ch) == EquipDone("equip_switch", ch, EquipSwitch(actors_byid[0], ch, FALSE))

\* Actor::unequip_slot(slot)
UnequipSlotOp(slot) == EquipDone("unequip_slot", slot, UnequipSlot(actors_byid[0], slot))

EquipNext ==
    \/ \E i \in 1..Len(Letters) : EquipSwitchOp(Letters[i])
    \/ \E slot \in {"RHand", "Body", "Head"} : UnequipSlotOp(slot)

SpecEquip == EquipInit /\ [][EquipNext]_vars

-----------------------------------------------------------------------------
(* AtMut::drop_item on its own: the generated map with swords on some tiles *)

\* the tiles of the generated map an item can lie on
PassableTiles == {c \in Region : TileIsPassable(GenMap[c])}

\* the generated map without actors, a sword on each tile of `on`
DropLocation(on) == LocationNew(GenMap, <<>>, [c \in on |-> Sword])

DropInit ==
    \E on \in SUBSET PassableTiles :
        InitWith(DropLocation(on),
                 [name |-> "start", id |-> -1, recomputed |-> FALSE, coord |-> <<0, 0>>])

\* self.at_mut(coord).drop_item(boots)
DropOp(coord) ==
    /\ steps < MaxSteps
    /\ op.name = "start"
    /\ SetLoc(DropItem(Loc, coord, Boots))
    /\ op' = [name |-> "drop_item", id |-> -1, recomputed |-> FALSE, coord |-> coord]
    /\ steps' = steps + 1
    /\ EngineIdle

DropNext == \E coord \in PassableTiles : DropOp(coord)

SpecDrop == DropInit /\ [][DropNext]_vars

-----------------------------------------------------------------------------
(* Charge on the generated level: the player starts on any tile, facing any
   direction *)

ChargeInit ==
    \E c \in PassableTiles \ {<<1, 0>>}, dir \in Directions, rat_dir \in {3, 4} :
        LET L == SpawnPlayer(LocationNew(GenMap, GenActors(rat_dir, 1), GenItems),
                             SetPlayer(ActorNew("Human", Pos(c, dir))))
        IN InitWith(L, Op("spawn", L.player_id[1], TRUE))

ChargeNext ==
    \E id \in 0..1, action \in {Charge, Move("Forward"), Wait} : ActOp(id, action)

SpecCharge == ChargeInit /\ [][ChargeNext]_vars

-----------------------------------------------------------------------------
(* Properties: melee *)

\* the angle of an attack relative to the facing of its target
RelAngle(dir, target) == DirSub(dir, target.pos.dir)

\* accuracy and damage an attack is expected to be resolved with: the
\* effective value, doubled or not, then halved when the attacker is short
\* of stamina
Resolved(value, doubled, short) ==
    LET v == IF doubled THEN value * 2 ELSE value
    IN IF short THEN v \div 2 ELSE v
ShortOfSp(a) == a.sp < Max2(0, a.stats.melee_str_req - a.stats.base.str_)
ResolvedWith(doubled) ==
    /\ op'.acc = Resolved(actors_byid[0].stats.melee_acc, doubled,
                          ShortOfSp(actors_byid[0]))
    /\ op'.raw = Resolved(actors_byid[0].stats.melee_dmg, doubled,
                          ShortOfSp(actors_byid[0]))

\* C12, as stated: accuracy and damage are doubled for every relative angle
\* except Back.
C12_DoubledUnlessBack ==
    [][op'.name = "attacks" =>
         ResolvedWith(RelAngle(op'.dir, actors_byid[1]) # "Back")]_vars

\* C12, amended: accuracy and damage are doubled exactly for the relative
\* angles Forward, Left and Right, and not for Back, LeftBack and RightBack.
C12_DoubledFromBehind ==
    [][op'.name = "attacks" =>
         ResolvedWith(RelAngle(op'.dir, actors_byid[1])
                         \in {"Forward", "Left", "Right"})]_vars

\* an attack at the relative angle LeftBack has hit with the damage of an
\* attack that is not doubled
C12_LeftBackPlain ==
    /\ op.name = "attacks"
    /\ RelAngle(op.dir, actors_byid[1]) = "LeftBack"
    /\ op.success
    /\ op.raw > 0
    /\ actors_byid[1].was_attacked_by[1].dmg = op.raw - Max2(op.r1, op.r2)

\* C13: for an attacker that affords the stamina cost, the attack at a
\* relative angle Left, Right or Forward uses twice the effective melee_acc
\* and melee_dmg, the attack at Back uses them unchanged, and with the same
\* rolls the logged damage is that raw damage less the larger armour roll.
C13_Step ==
    (op'.name = "attacks" /\ ~ShortOfSp(actors_byid[0])) =>
        LET rel == RelAngle(op'.dir, actors_byid[1])
            a == actors_byid[0]
            log == actors_byid'[1].was_attacked_by
        IN /\ rel \in {"Forward", "Left", "Right"} =>
                 /\ op'.acc = 2 * a.stats.melee_acc
                 /\ op'.raw = 2 * a.stats.melee_dmg
           /\ rel = "Back" =>
                 /\ op'.acc = a.stats.melee_acc
                 /\ op'.raw = a.stats.melee_dmg
           /\ log[Len(log)].dmg = Max2(0, op'.raw - Max2(op'.r1, op'.r2))
C13_TwiceTheFrontal == [][C13_Step]_vars

\* a hit from straight behind by an attacker that affords it
C13_HitFromBehind ==
    /\ op.name = "attacks"
    /\ RelAngle(op.dir, actors_byid[1]) = "Forward"
    /\ op.success
    /\ op.raw >= 2
    /\ op.acc = 2 * actors_byid[0].stats.melee_acc
    /\ op.raw = 2 * actors_byid[0].stats.melee_dmg

\* C14: an attack by an actor whose sp is below max(0, melee_str_req - str)
\* is resolved with accuracy and damage halved and leaves its sp at 0; any
\* other attack is resolved at full values and takes exactly that cost off
\* its sp.
C14_Step ==
    op'.name = "attacks" =>
        LET a == actors_byid[0]
            cost == Max2(0, a.stats.melee_str_req - a.stats.base.str_)
            doubled == RelAngle(op'.dir, actors_byid[1]) \in {"Forward", "Left", "Right"}
            full_acc == IF doubled THEN 2 * a.stats.melee_acc ELSE a.stats.melee_acc
            full_dmg == IF doubled THEN 2 * a.stats.melee_dmg ELSE a.stats.melee_dmg
        IN IF a.sp < cost
           THEN /\ op'.acc = full_acc \div 2
                /\ op'.raw = full_dmg \div 2
                /\ actors_byid'[0].sp = 0
           ELSE /\ op'.acc = full_acc
                /\ op'.raw = full_dmg
                /\ actors_byid'[0].sp = a.sp - cost
C14_StaminaOfAttack == [][C14_Step]_vars

\* an attacker with the sword and less stamina than it takes has attacked:
\* its sp is 0 and the damage was halved
C14_Exhausted ==
    /\ op.name = "attacks"
    /\ actors_byid[0].sp = 0
    /\ actors_byid[0].stats.melee_str_req > actors_byid[0].stats.base.str_
    /\ op.raw < actors_byid[0].stats.melee_dmg

-----------------------------------------------------------------------------
(* Properties: doors and blocked moves *)

\* the coordinate a Move(angle) of actor a leads to
MoveTarget(a, angle) == PosAfterAction(a, Move(angle))[1].coord

\* C15: an actor that can act and moves toward a closed door opens it and
\* stays in place; when the same actor repeats the same move as the next
\* action, it moves onto the coordinate of the opened door.
C15_Opens ==
    LET id == op'.id
        a == actors_byid[id]
        door == MoveTarget(a, op'.action.arg)
    IN (/\ id \in Living
        /\ CanPerformAction(a)
        /\ TileAt(map, door).feature = "DoorClosed") =>
           /\ map'[door].feature = "DoorOpen"
           /\ actors_byid'[id].pos = a.pos
           /\ actors_coord_to_id' = actors_coord_to_id
C15_Through ==
    LET id == op'.id
        a == actors_byid[id]
        door == MoveTarget(a, op'.action.arg)
    IN (/\ op.name = "act" /\ op.id = id /\ op.action = op'.action
        /\ id \in Living
        /\ CanPerformAction(a)
        /\ TileAt(GenMap, door).feature = "DoorClosed"
        /\ TileAt(map, door).feature = "DoorOpen"
        /\ door \notin DOMAIN actors_coord_to_id) =>
           /\ actors_byid'[id].pos = Pos(door, a.pos.dir)
           /\ door \in DOMAIN actors_coord_to_id'
           /\ actors_coord_to_id'[door] = id
           /\ a.pos.coord \notin DOMAIN actors_coord_to_id'
           /\ map' = map
C15_DoorThenThrough ==
    [][(op'.name = "act" /\ op'.action.kind = "Move") =>
          (C15_Opens /\ C15_Through)]_vars

\* an actor stands in the door it has opened
C15_InTheDoor ==
    \E id \in Living :
        /\ op.name = "act" /\ op.id = id /\ op.action.kind = "Move"
        /\ GenMap[actors_byid[id].pos.coord].feature = "DoorClosed"
        /\ map[actors_byid[id].pos.coord].feature = "DoorOpen"
        /\ actors_coord_to_id[actors_byid[id].pos.coord] = id
        /\ actors_byid[id].pre_pos[1].coord # actors_byid[id].pos.coord


-----------------------------------------------------------------------------
(* Location::act: what opening a door changes *)

\* C16: opening a door gives a map that differs from the map before the call
\* only at the coordinate of the door, the map before the call has the door
\* closed, and no candidate position from the door on is taken (a Charge does
\* not go on through the door).
C16_Step ==
    LET id == op'.id
        a == actors_byid[id]
        cands == PosAfterAction(a, op'.action)
    IN (/\ op'.name = "act"
        /\ op'.action.kind \in {"Move", "Charge", "Spin"}
        /\ id \in Living
        /\ CanPerformAction(a)) =>
           /\ TileAt(map, cands[1].coord).feature = "DoorClosed" =>
                /\ map' # map
                /\ actors_byid'[id].pos = a.pos
           /\ map' # map =>
                \E k \in 1..Len(cands) :
                    LET door == cands[k].coord
                    IN /\ TileAt(map, door).feature = "DoorClosed"
                       /\ map' = [map EXCEPT ![door] = TileAddFeature(@, "DoorOpen")]
                       /\ map'[door].feature = "DoorOpen"
                       /\ \A c \in DOMAIN map : c # door => map'[c] = map[c]
                       /\ DOMAIN map' = DOMAIN map
                       /\ \A j \in k..Len(cands) :
                            actors_byid'[id].pos.coord # cands[j].coord
-----------------------------------------------------------------------------
(* Location::act: blocked moves *)

\* the candidate position is one the actor cannot take: its tile is not
\* passable, or it holds an actor and the action is not one that attacks
BlockedAt(a, action, new_pos) ==
    /\ new_pos.coord # a.pos.coord
    /\ \/ ~TileIsPassable(TileAt(map, new_pos.coord))
       \/ /\ new_pos.coord \in DOMAIN actors_coord_to_id
          /\ ~CouldBeAttack(action)

AllBlocked(a, action) ==
    /\ action.kind \in {"Move", "Spin", "Charge"}
    /\ \A k \in 1..Len(PosAfterAction(a, action)) :
            BlockedAt(a, action, PosAfterAction(a, action)[k])

NoClosedDoor(a, action) ==
    \A k \in 1..Len(PosAfterAction(a, action)) :
        TileAt(map, PosAfterAction(a, action)[k].coord).feature # "DoorClosed"

\* the call is a no-op on the world
WorldUntouched(id) ==
    /\ op'.name = "act"
    /\ actors_byid'[id].pos = actors_byid[id].pos
    /\ actors_coord_to_id' = actors_coord_to_id
    /\ map' = map
    /\ items' = items
    /\ \A other \in DOMAIN actors_byid \ {id} :
            /\ other \in DOMAIN actors_byid'
            /\ actors_byid'[other].hp = actors_byid[other].hp

\* C17 as stated: for a living actor that can act, a Move, Spin or Charge all
\* of whose candidate destinations are impassable, or occupied when the action
\* does not attack, leaves the actor's position, the index, the map, the floor
\* items and every other actor's hp unchanged.
C17_BlockedIsNoOp ==
    [][(/\ op'.name = "act"
        /\ op'.id \in Living
        /\ CanPerformAction(actors_byid[op'.id])
        /\ AllBlocked(actors_byid[op'.id], op'.action)) =>
            WorldUntouched(op'.id)]_vars

\* C17, amended: the same when none of the candidate destinations is a closed
\* door.
C17_BlockedNoDoorIsNoOp ==
    [][(/\ op'.name = "act"
        /\ op'.id \in Living
        /\ CanPerformAction(actors_byid[op'.id])
        /\ AllBlocked(actors_byid[op'.id], op'.action)
        /\ NoClosedDoor(actors_byid[op'.id], op'.action)) =>
            WorldUntouched(op'.id)]_vars

\* an actor has stepped backward against a tile that another living actor
\* holds, and stands where it stood
C17_BackIntoActor ==
    \E id \in Living :
        LET a == actors_byid[id]
            back == MoveTarget(a, "Back")
        IN /\ op.name = "act" /\ op.id = id /\ op.action = Move("Back")
           /\ a.acted
           /\ a.pre_pos = Some(a.pos)
           /\ TileIsPassable(TileAt(map, back))
           /\ back \in DOMAIN actors_coord_to_id
           /\ actors_coord_to_id[back] \in Living \ {id}


-----------------------------------------------------------------------------
(* Location::act, Location::spawn: the calls that abort the run *)

\* the step is a call act(id, _), returned or panicked
ActCalled(id) ==
    /\ op'.id = id
    /\ \/ op'.name = "act"
       \/ op'.name = "abort" /\ op'.call = "act"

C18_Step ==
    \A id \in 0..MaxActors :
        ActCalled(id) =>
            /\ op'.name = "abort" <=> id \notin DOMAIN actors_byid
            /\ (id \in DOMAIN actors_byid /\ actors_byid[id].hp <= 0) =>
                  /\ op'.name = "act"
                  /\ actors_byid'[id] = actors_byid[id]
                  /\ actors_coord_to_id' = actors_coord_to_id
                  /\ actors_dead' = actors_dead
                  /\ map' = map
                  /\ items' = items
C19_Step ==
    /\ (op'.name = "abort" /\ op'.call = "spawn") =>
          /\ \E astate \in SpawnSet : astate.pos.coord \in DOMAIN actors_coord_to_id
          /\ UNCHANGED <<actors_byid, actors_coord_to_id, actors_dead,
                         actors_counter, map, items, light_map, player_id>>
    /\ op'.name = "spawn" =>
          /\ actors_byid'[op'.id].pos.coord \notin DOMAIN actors_coord_to_id
          /\ actors_counter' = actors_counter + 1
C19_OccupiedSpawnAborts == [][C19_Step]_vars

\* spawn panicked on the coordinate of an actor spawned by the call before,
\* whose per-tick fields are as that call left them
C19_SpawnedTwice ==
    /\ Aborted
    /\ op.call = "spawn"
    /\ \E astate \in SpawnSet : \E id \in Living :
          /\ astate.pos.coord \in DOMAIN actors_coord_to_id
          /\ actors_coord_to_id[astate.pos.coord] = id
          /\ actors_byid[id].pos.coord = astate.pos.coord
          /\ actors_byid[id].pre_pos = None
          /\ op.id = actors_counter


-----------------------------------------------------------------------------
(* Controller::run: requests, replies and the decisions applied *)

\* the State at the top of the current round of the loop
TickSnapshot == [ctl.state EXCEPT !.acted = <<>>]

\* C20: the requests of a tick, one for an actor, all carry the State of the
\* start of the tick, and no decision is applied to the State before one
\* reply has been collected for every actor of the tick.
C20_CollectedBeforeApplied ==
    /\ \A r \in SeqRange(ctl.pl_req) \cup SeqRange(ctl.ai_req) :
            r[2] = TickSnapshot
    /\ NoDup(ctl.pl_req \o ctl.ai_req)
    /\ ctl.state.acted # <<>> => ctl.collected = Len(ctl.actors)


\* the Controller has taken a step of run
CtlMoved == <<ctl.pc, ctl.i>> # <<ctl'.pc, ctl'.i>>

\* C21: a send or a receive that fails makes run return at once with the
\* error naming the cause, Transmit or Receive, with no decision applied and
\* no tick in that step; after run has returned its State and its result do
\* not change any more.
C21_Step ==
    /\ (CtlMoved /\ ctl.pc = "send" /\ SendFails(ctl, ctl.actors[ctl.i])) =>
          ctl' = [ctl EXCEPT !.pc = "err", !.result = Some("Transmit")]
    /\ (CtlMoved /\ ctl.pc = "recv" /\ RecvFails(ctl, ctl.actors[ctl.i])) =>
          ctl' = [ctl EXCEPT !.pc = "err", !.result = Some("Receive")]
    /\ ctl.pc = "err" =>
          /\ ctl'.pc = "err" /\ ctl'.result = ctl.result
          /\ ctl'.state = ctl.state /\ ctl'.collected = ctl.collected
          /\ Len(ctl'.pl_req) <= Len(ctl.pl_req) /\ Len(ctl'.ai_req) <= Len(ctl.ai_req)
    /\ ctl'.pc = "err" <=> ctl'.result # None
C21_FailureEndsRun == [][C21_Step]_vars

\* run has returned the Receive error in the middle of a tick: a decision is
\* applied, and a reply is still missing
C21_ReceiveFailed ==
    /\ ctl.pc = "err"
    /\ ctl.result = Some("Receive")
    /\ ctl.state.acted # <<>>
    /\ ctl.collected < Len(ctl.actors)


-----------------------------------------------------------------------------
(* Properties: the action cooldown *)

\* C22: action_cd of every actor is never negative, and no operation, which
\* holds at most one own tick of an actor, lowers it by more than 1.
C22_Step ==
    \A id \in DOMAIN actors_byid :
        actors_byid'[id].action_cd >= actors_byid[id].action_cd - 1
C23_OwnTickLowersCooldown ==
    [][(/\ op'.name \in {"act", "skip_act"}
        /\ op'.id \in Living
        /\ actors_byid[op'.id].action_cd > 0) =>
            actors_byid'[op'.id].action_cd = actors_byid[op'.id].action_cd - 1]_vars


-----------------------------------------------------------------------------
(* Properties: the light map *)

\* the light values with which the sources reach a coordinate
LightReaching(c) ==
    {r[2] : r \in {x \in TileLight(Loc) \cup ActorLight(Loc) : x[1] = c}}

\* C24: after recalculate_light_map the light at every coordinate is the
\* largest of the values with which a light-emitting tile or indexed actor
\* reaches it, 0 when none does, whatever the order of the sources.
C24_LightIsTheMaximum ==
    op.name = "recalculate_light_map" =>
        \A c \in Region :
            /\ LightReaching(c) = {} => light_map[c] = 0
            /\ LightReaching(c) # {} =>
                  /\ light_map[c] \in LightReaching(c)
                  /\ \A v \in LightReaching(c) : v <= light_map[c]

\* a coordinate that two sources reach with different light has the larger
\* of the two
C24_TwoSources ==
    /\ op.name = "recalculate_light_map"
    /\ Cardinality(LightTiles(Loc) \cup LightActors(Loc)) >= 2
    /\ \E c \in Region : \E v, w \in LightReaching(c) :
          /\ 0 < v /\ v < w
          /\ light_map[c] = w


-----------------------------------------------------------------------------
(* Properties: what an actor sees *)

\* the actor was put into the open, unlit area, sees 5 tiles far and has no
\* infravision
WatcherInTheDark(id) ==
    /\ op.name = "spawn" /\ op.id = id
    /\ id \in DOMAIN actors_byid
    /\ map = OpenMap
    /\ \A c \in Region : light_map[c] = 0
    /\ actors_byid[id].stats.base.vision = 5
    /\ actors_byid[id].stats.base.infravision = 0

LightOnActorsSide(a, coord) ==
    {light_map[Step(coord, (dir + 3) % 6)] :
        dir \in {d \in DirectionsTo(a.pos.coord, coord) :
                    TileOpaqueness(TileAt(map, Step(coord, (d + 3) % 6))) < 20}}

PlacesOf(item) ==
    Cardinality({c \in DOMAIN items : items[c] = item})
    + Cardinality({p \in (DOMAIN actors_byid) \X {Letters[i] : i \in 1..Len(Letters)} :
                      /\ p[2] \in DOMAIN actors_byid[p[1]].items_backpack
                      /\ actors_byid[p[1]].items_backpack[p[2]] = item})
    + Cardinality({p \in (DOMAIN actors_byid) \X Slots :
                      /\ p[2] \in DOMAIN actors_byid[p[1]].items_equipped
                      /\ actors_byid[p[1]].items_equipped[p[2]][2] = item})

\* C27: after any sequence of Pick, Equip and deaths every item is held in
\* exactly one place: a floor tile, a backpack letter or an equipped slot
\* (the area always has a free floor tile within reach, so nothing is
\* discarded)
C27_HeldInOnePlace ==
    \A item \in {Sword, Armor, Helmet, Boots} : PlacesOf(item) = 1


\* base_stats.to_effective() + mod_stats, field by field
StatsSum(a, f) == a.base_stats[f] + a.mod_stats.base[f]

\* C28: after every completed act, skip_act or spawn the effective stats of
\* every living actor are base_stats.to_effective() + mod_stats with each
\* derived term added once, and recomputing them changes nothing.
C28_StatsDerivedOnce ==
    op.name \in {"act", "skip_act", "spawn"} =>
        \A id \in DOMAIN actors_byid :
            LET a == actors_byid[id]
            IN ~IsDead(a) =>
                /\ a.stats.base.int = StatsSum(a, "int")
                /\ a.stats.base.dex = StatsSum(a, "dex")
                /\ a.stats.base.str_ = StatsSum(a, "str_")
                /\ a.stats.base.max_hp = StatsSum(a, "max_hp")
                /\ a.stats.base.infravision = StatsSum(a, "infravision")
                /\ a.stats.base.vision = StatsSum(a, "vision")
                /\ a.stats.base.ac = StatsSum(a, "ac") + (StatsSum(a, "str_") \div 2)
                /\ a.stats.base.ev = StatsSum(a, "ev") + (StatsSum(a, "dex") \div 2)
                /\ a.stats.base.max_sp = StatsSum(a, "max_sp") + 2 * StatsSum(a, "str_")
                /\ a.stats.base.max_mp = StatsSum(a, "max_mp") + 2 * StatsSum(a, "int")
                /\ a.stats.melee_dmg = a.mod_stats.melee_dmg + StatsSum(a, "str_")
                /\ a.stats.melee_acc = a.mod_stats.melee_acc + StatsSum(a, "dex")
                /\ a.stats.melee_str_req = a.mod_stats.melee_str_req
                /\ RecalculateStats(a).stats = a.stats

\* a living actor with an item on, two calls after it has put it on
C28_EquippedAndTicked ==
    /\ op.name = "skip_act"
    /\ steps >= 1
    /\ \E id \in DOMAIN actors_byid :
          /\ ~IsDead(actors_byid[id])
          /\ actors_byid[id].items_equipped # <<>>
          /\ actors_byid[id].mod_stats # EffectiveStatsDefault


\* C29: a call of act resolves at most one melee attack, also for Charge: the
\* attack is on the first occupied cell ahead, its target is the actor the
\* index holds for that cell, nobody else is attacked, and the attacker ends
\* where it stood when it attacked (after a Charge onto the second cell: one
\* step ahead), so no later candidate is processed.
C29_Step ==
    op'.name = "act" /\ op'.id \in DOMAIN actors_byid =>
        LET a == actors_byid[op'.id]
            after == actors_byid'[op'.id]
            head == Step(a.pos.coord, a.pos.dir)
            first == head \in DOMAIN actors_coord_to_id
            attacked == IF first THEN head ELSE Step(head, a.pos.dir)
        IN /\ Len(after.did_attack) <= 1
           /\ Len(after.did_attack) = 1 =>
                /\ attacked \in DOMAIN actors_coord_to_id
                /\ Len(actors_byid'[actors_coord_to_id[attacked]].was_attacked_by) = 1
                /\ \A t \in DOMAIN actors_byid' :
                      t # actors_coord_to_id[attacked] =>
                          actors_byid'[t].was_attacked_by = <<>>
                /\ after.pos = IF first THEN a.pos
                               ELSE PosMove(a.pos, DirVec[a.pos.dir + 1])
                /\ ~first => op'.action = Charge
C29_OneAttackPerAct == [][C29_Step]_vars

\* a Charge has moved the attacker one step and attacked the actor behind
C29_ChargedIntoRat ==
    /\ op.name = "act"
    /\ op.action = Charge
    /\ op.id \in DOMAIN actors_byid
    /\ Len(actors_byid[op.id].did_attack) = 1
    /\ actors_byid[op.id].pre_pos # Some(actors_byid[op.id].pos)


\* the call act(id, action) changed something besides the bookkeeping of
\* post_action: a position, the index, the map, the floor items, the items
\* the actor holds, the hp of another actor, or it attacked
ActHadEffect(id) ==
    \/ actors_byid'[id].pos # actors_byid[id].pos
    \/ actors_coord_to_id' # actors_coord_to_id
    \/ map' # map
    \/ items' # items
    \/ actors_byid'[id].items_backpack # actors_byid[id].items_backpack
    \/ actors_byid'[id].items_equipped # actors_byid[id].items_equipped
    \/ actors_byid'[id].did_attack # <<>>
    \/ \E other \in DOMAIN actors_byid \ {id} :
            actors_byid'[other].hp # actors_byid[other].hp

\* the stamina and the acted flag after act(id, action) on an actor that can
\* act: Wait adds 1 up to the effective max_sp and leaves acted false; Charge
\* takes max(0, 10 - str) after the cost of an attack, not below 0
PostActionKept(id, action) ==
    LET a == actors_byid[id]
        after == actors_byid'[id]
        fought == IF after.did_attack # <<>> THEN a.sp - MeleeSpCost(a) ELSE a.sp
    IN /\ action = Wait =>
            /\ after.sp = IF a.sp + 1 > a.stats.base.max_sp
                          THEN a.stats.base.max_sp ELSE a.sp + 1
            /\ ~after.acted
       /\ action = Charge =>
            /\ after.sp = IF fought - Max2(0, 10 - a.stats.base.str_) < 0 THEN 0
                          ELSE fought - Max2(0, 10 - a.stats.base.str_)
            /\ after.sp >= 0

ActsOnAble ==
    /\ op'.name = "act"
    /\ op'.id \in DOMAIN actors_byid
    /\ CanPerformAction(actors_byid[op'.id])

\* C30 as stated: after an action on an actor that can act, Wait has raised sp
\* by 1 up to the effective max_sp and has not marked the actor as having
\* acted, Charge has lowered sp by max(0, 10 - str) and not below 0, and the
\* actor is marked as having acted only if the action had an effect.
C30_ActedOnlyWithEffect ==
    [][ActsOnAble =>
          /\ PostActionKept(op'.id, op'.action)
          /\ actors_byid'[op'.id].acted => ActHadEffect(op'.id)]_vars

\* C30, amended: the same for Wait and Charge, and the actor is marked as
\* having acted after every action but Wait, with or without an effect.
C30_ActedUnlessWait ==
    [][ActsOnAble =>
          /\ PostActionKept(op'.id, op'.action)
          /\ actors_byid'[op'.id].acted <=> op'.action # Wait]_vars

\* an actor has waited with its stamina at the effective max_sp
C30_WaitedAtFullStamina ==
    /\ op.name = "act"
    /\ op.action = Wait
    /\ steps >= 1
    /\ actors_byid[op.id].saved_sp = actors_byid[op.id].stats.base.max_sp
    /\ actors_byid[op.id].sp = actors_byid[op.id].stats.base.max_sp


-----------------------------------------------------------------------------
(* Properties: where a dropped item lands *)

\* the coordinates at most n steps from start, stepping off the start and off
\* passable tiles only
RECURSIVE StepsFrom(_, _)
StepsFrom(start, n) ==
    IF n = 0 THEN {start}
    ELSE LET near == StepsFrom(start, n - 1)
         IN near \cup UNION {Neighbors(c) :
                               c \in {x \in near : x = start
                                                   \/ TileIsPassable(TileAt(map, x))}}

\* the passable tiles without an item
FreeTiles == {c \in Region : TileIsPassable(TileAt(map, c)) /\ c \notin DOMAIN items}

\* the largest number of steps between two tiles of the region
FarthestStep == Cardinality(Region)

\* the free tiles nearest to start, none when no free tile can be reached
NearestFree(start) ==
    {c \in FreeTiles :
        \E n \in 0..FarthestStep :
            /\ c \in StepsFrom(start, n)
            /\ \A m \in 0..(n - 1) : StepsFrom(start, m) \cap FreeTiles = {}}

\* C31: drop_item puts the item on its coordinate when that is passable and
\* free, otherwise on a passable free tile at the smallest breadth-first
\* distance; it replaces no item, inserts at most one, and leaves the floor
\* as it is when no such tile is reachable.
C31_Step ==
    op'.name = "drop_item" =>
        /\ \A c \in DOMAIN items : c \in DOMAIN items' /\ items'[c] = items[c]
        /\ IF op'.coord \in FreeTiles
           THEN items' = MapInsert(items, op'.coord, Boots)
           ELSE IF NearestFree(op'.coord) = {}
           THEN items' = items
           ELSE \E c \in NearestFree(op'.coord) : items' = MapInsert(items, c, Boots)
C31_DropLandsNearest == [][C31_Step]_vars

\* the boots were dropped on a tile that holds an item and lie somewhere else
C31_LandedNextTo ==
    /\ op.name = "drop_item"
    /\ items[op.coord] = Sword
    /\ \E c \in DOMAIN items : items[c] = Boots


-----------------------------------------------------------------------------
(* Properties: what an attack does to its target *)

\* C32: an attack never raises the hp of its target: after a failed roll the
\* hp and the noise of the target are as before; after a success the hp is
\* lower by at least max(0, raw damage - ac) and at most the raw damage, and
\* the noise_emision of the target is at least 7.
C32_Step ==
    op'.name = "attacks" =>
        LET t == actors_byid[1]
            after == actors_byid'[1]
            least == IF op'.raw - t.stats.base.ac < 0 THEN 0
                     ELSE op'.raw - t.stats.base.ac
        IN /\ after.hp <= t.hp
           /\ ~op'.success => after.hp = t.hp /\ after.noise_emision = t.noise_emision
           /\ op'.success => /\ t.hp - after.hp >= least
                             /\ t.hp - after.hp <= op'.raw
                             /\ after.noise_emision >= 7
C32_HpNeverRaised == [][C32_Step]_vars

\* a hit whose damage the armour of the target has lowered
C32_ArmourTookSome ==
    /\ op.name = "attacks"
    /\ op.success
    /\ actors_byid[1].stats.base.ac > 0
    /\ actors_byid[1].was_attacked_by[1].dmg < op.raw
    /\ actors_byid[1].noise_emision = 7


-----------------------------------------------------------------------------
(* Properties: the actor table *)

\* C33: act and skip_act, with the pre_any_tick and post_any_tick they run,
\* leave the ids stored in actors_byid as they were, also when the actor
\* cannot act, when it attacks and when the dead are swept.
C33_Step ==
    op'.name \in {"act", "skip_act"} \/ (op'.name = "abort" /\ op'.call = "act") =>
        DOMAIN actors_byid' = DOMAIN actors_byid
C33_IdsKept == [][C33_Step]_vars

\* an actor killed by the last call is still stored, and so is an actor that
\* could not act
C33_KilledStillStored ==
    /\ op.name = "act"
    /\ \E id \in actors_dead :
          /\ id \in DOMAIN actors_byid
          /\ actors_byid[id].was_attacked_by # <<>>


\* C34: ids are unique and never reused: spawn gives the new actor the value
\* of the counter and raises the counter by one, the counter never goes down
\* (not after remove, not after a death), and it is above every id that is or
\* was stored.
C34_Step ==
    /\ actors_counter' >= actors_counter
    /\ op'.name = "spawn" =>
          /\ DOMAIN actors_byid' = DOMAIN actors_byid \cup {actors_counter}
          /\ actors_counter \notin op.seen
          /\ actors_counter' = actors_counter + 1
C34_IdsNeverReused ==
    /\ [](\A id \in op.seen \cup DOMAIN actors_byid : id < actors_counter)
    /\ [][C34_Step]_vars

\* an actor was spawned after another one had been removed
C34_SpawnedAfterRemove ==
    /\ op.name = "spawn"
    /\ steps >= 2
    /\ op.seen \ DOMAIN actors_byid # {}


-----------------------------------------------------------------------------
(* Properties: Charge *)

\* C35: a Charge of an actor that can act does not carry it past a blocking
\* cell: when the first cell ahead is impassable, or is occupied and no
\* attack is resolved, the actor does not end on the second cell ahead, and
\* past an impassable cell it attacks nobody.
C35_Step ==
    (/\ op'.name = "act"
     /\ op'.action = Charge
     /\ op'.id \in DOMAIN actors_byid
     /\ CanPerformAction(actors_byid[op'.id])) =>
        LET a == actors_byid[op'.id]
            after == actors_byid'[op'.id]
            head == Step(a.pos.coord, a.pos.dir)
            walled == ~TileIsPassable(TileAt(map, head))
            held == head \in DOMAIN actors_coord_to_id /\ after.did_attack = <<>>
        IN /\ walled \/ held => after.pos.coord # Step(head, a.pos.dir)
           /\ walled => after.did_attack = <<>>
C35_ChargeStopsAtBlock == [][C35_Step]_vars


-----------------------------------------------------------------------------
(* Properties: stamina *)

\* C36: the sp of every actor is at least 0 after any sequence of Wait,
\* Charge, Move, attacks and Equip applied through act.
C36_StaminaNotNegative == \A id \in DOMAIN actors_byid : actors_byid[id].sp >= 0

\* an actor has charged with less stamina than the charge costs
C36_ChargedWhenShort ==
    /\ op.name = "act"
    /\ op.action = Charge
    /\ steps >= 1
    /\ op.id \in DOMAIN actors_byid
    /\ actors_byid[op.id].acted
    /\ actors_byid[op.id].saved_sp < ChargeSpCost(actors_byid[op.id])
    /\ actors_byid[op.id].sp = 0


-----------------------------------------------------------------------------
(* Properties: equipment and mod_stats *)

\* the sum of the stats of the items in the given slots
RECURSIVE EquippedStats(_, _)
EquippedStats(a, slots) ==
    IF slots = <<>> THEN EffectiveStatsDefault
    ELSE LET rest == EquippedStats(a, Tail(slots))
         IN IF Head(slots) \in DOMAIN a.items_equipped
            THEN EffAdd(a.items_equipped[Head(slots)][2].stats, rest)
            ELSE rest

\* mod_stats is the sum of the stats of the equipped items, and no letter is
\* both equipped and in the backpack
EquipmentSums ==
    LET a == actors_byid[0]
    IN /\ a.mod_stats = EquippedStats(a, SlotOrder)
       /\ \A slot \in DOMAIN a.items_equipped :
             /\ a.items_equipped[slot][2].slot = Some(slot)
             /\ a.items_equipped[slot][1] \notin DOMAIN a.items_backpack

\* the last two calls were equip_switch(ch) of an item of the backpack that
\* has a slot, and equip_switch(ch) again
PutOnAndOff ==
    /\ op.name = "equip_switch"
    /\ op.arg \in DOMAIN op.before.items_backpack
    /\ op.before.items_backpack[op.arg].slot # None
    /\ op'.name = "equip_switch"
    /\ op'.arg = op.arg

\* the item is back under its letter and mod_stats is what it was
Restored ==
    /\ actors_byid'[0].mod_stats = op.before.mod_stats
    /\ op.arg \in DOMAIN actors_byid'[0].items_backpack
    /\ actors_byid'[0].items_backpack[op.arg] = op.before.items_backpack[op.arg]

\* C37 as stated: after any sequence of equip_switch, equip, unequip and
\* unequip_slot, mod_stats is the sum of the stats of the equipped items and
\* each slot holds one item at most, and putting an item on and off again
\* restores mod_stats and the item's place in the backpack.
C37_OnAndOffRestores ==
    /\ []EquipmentSums
    /\ [][PutOnAndOff => Restored]_vars

\* C37, amended: the same, where putting on and off restores mod_stats when
\* the slot of the item was empty before; an item that was in the slot has
\* gone to the backpack and its stats stay out of mod_stats.
C37_OnAndOffRestoresEmptySlot ==
    /\ []EquipmentSums
    /\ [][PutOnAndOff =>
            /\ op.arg \in DOMAIN actors_byid'[0].items_backpack
            /\ actors_byid'[0].items_backpack[op.arg] = op.before.items_backpack[op.arg]
            /\ LET slot == op.before.items_backpack[op.arg].slot[1]
               IN IF slot \notin DOMAIN op.before.items_equipped
                  THEN actors_byid'[0].mod_stats = op.before.mod_stats
                  ELSE /\ actors_byid'[0].mod_stats =
                            EffSub(op.before.mod_stats,
                                   op.before.items_equipped[slot][2].stats)
                       /\ actors_byid'[0].items_backpack[op.before.items_equipped[slot][1]]
                            = op.before.items_equipped[slot][2]]_vars

\* an item was put on in place of another one and taken off again
C37_SwappedAndOff ==
    /\ op.name = "equip_switch"
    /\ steps = 3
    /\ actors_byid[0].items_equipped = <<>>
    /\ actors_byid[0].mod_stats = EffectiveStatsDefault
    /\ op.before.mod_stats = Dagger.stats


-----------------------------------------------------------------------------
(* Properties: too tired to attack *)

\* act(id, action) is called for an actor that can act, whose sp is below its
\* melee cost and whose action leads into a cell another actor stands on
TiredBump ==
    /\ op'.name = "act"
    /\ op'.id \in DOMAIN actors_byid
    /\ CanPerformAction(actors_byid[op'.id])
    /\ CouldBeAttack(op'.action)
    /\ actors_byid[op'.id].sp < MeleeSpCost(actors_byid[op'.id])
    /\ PosAfterAction(actors_byid[op'.id], op'.action)[1].coord
          \in DOMAIN actors_coord_to_id

\* the actor in the cell the action leads into
BumpedId ==
    actors_coord_to_id[PosAfterAction(actors_byid[op'.id], op'.action)[1].coord]

\* nobody was hurt, nothing was logged and the attacker stands where it stood
NoAttackResolved ==
    /\ \A t \in DOMAIN actors_byid : actors_byid'[t].hp = actors_byid[t].hp
    /\ \A t \in DOMAIN actors_byid' :
          /\ actors_byid'[t].did_attack = <<>>
          /\ actors_byid'[t].was_attacked_by = <<>>
    /\ actors_byid'[op'.id].pos = actors_byid[op'.id].pos
    /\ actors_coord_to_id' = actors_coord_to_id

\* C38 as stated: through act, an actor whose sp is below its melee cost
\* resolves no attack; moving into an occupied cell leaves the hp of the
\* target, both attack logs and the sp and the position of the attacker
\* unchanged.
C38_TiredBumpChangesNothing ==
    [][TiredBump =>
          /\ actors_byid'[BumpedId].hp = actors_byid[BumpedId].hp
          /\ actors_byid'[BumpedId].was_attacked_by = actors_byid[BumpedId].was_attacked_by
          /\ actors_byid'[op'.id].did_attack = actors_byid[op'.id].did_attack
          /\ actors_byid'[op'.id].sp = actors_byid[op'.id].sp
          /\ actors_byid'[op'.id].pos = actors_byid[op'.id].pos]_vars

\* C38, amended: through act, an actor whose sp is below its melee cost
\* resolves no attack; moving into an occupied cell leaves every hp and the
\* position of the attacker unchanged and both attack logs empty, as the call
\* has cleared them; a Move leaves the sp of the attacker unchanged and a
\* Charge takes its own cost from it, down to 0.
C38_TiredBumpResolvesNothing ==
    [][TiredBump =>
          /\ NoAttackResolved
          /\ actors_byid'[op'.id].sp =
                IF op'.action = Charge
                THEN Max2(0, actors_byid[op'.id].sp - ChargeSpCost(actors_byid[op'.id]))
                ELSE actors_byid[op'.id].sp]_vars

\* an actor too tired to attack has charged into its neighbour: no attack,
\* and the stamina it had is gone
C38_TiredCharged ==
    /\ op.name = "act"
    /\ op.action = Charge
    /\ op.id \in DOMAIN actors_byid
    /\ actors_byid[op.id].acted
    /\ ActorHead(actors_byid[op.id]) \in DOMAIN actors_coord_to_id
    /\ actors_byid[op.id].saved_sp < MeleeSpCost(actors_byid[op.id])
    /\ actors_byid[op.id].saved_sp > 0
    /\ actors_byid[op.id].sp = 0
    /\ actors_byid[op.id].did_attack = <<>>


-----------------------------------------------------------------------------
(* Properties: requests and replies of a tick *)

\* the actors at the positions `at` whose requests go to `provider`
AskedOf(provider, at) ==
    Cardinality({k \in at \cap DOMAIN ctl.actors : ProviderOf(ctl.actors[k]) = provider})

\* what is on the way on the channels of `provider`: requests not yet taken
\* and replies not yet received
OnTheWay(provider) ==
    IF provider = "pl" THEN Len(ctl.pl_req) + Len(ctl.pl_rep)
    ELSE Len(ctl.ai_req) + Len(ctl.ai_rep)

\* on each channel, what is on the way is what the first loop has sent and
\* the second loop has not yet awaited; nothing is on the way when a tick
\* ends
RepliesMatchRequests ==
    \A provider \in {"pl", "ai"} :
        /\ ctl.pc = "send" => OnTheWay(provider) = AskedOf(provider, 1..(ctl.i - 1))
        /\ ctl.pc = "recv" =>
              OnTheWay(provider) = AskedOf(provider, ctl.i..Len(ctl.actors))
        /\ ctl.pc = "tick" => OnTheWay(provider) = 0
        /\ ctl.pc # "err"

\* C39: in each tick of Controller::run the replies awaited on a channel are
\* as many as the requests sent on it, so with providers that answer every
\* request once and in order every tick that starts completes, and no reply
\* is left for a later tick.
C39_EveryTickCompletes ==
    /\ []RepliesMatchRequests
    /\ (ctl.pc = "send") ~> (ctl.pc = "tick")

\* the second tick has collected the decision of every actor and the
\* channels are empty
C39_SecondTickDone ==
    /\ ctl.pc = "tick"
    /\ ctl.state.turn = 1
    /\ ctl.collected = Len(ctl.actors)
    /\ Len(ctl.state.acted) = Len(ctl.actors)
    /\ ctl.pl_req = <<>> /\ ctl.pl_rep = <<>>
    /\ ctl.ai_req = <<>> /\ ctl.ai_rep = <<>>

=============================================================================
